---- MODULE Spec2Model ----
(***************************************************************************)
(* Model of the retrieval-augmented generation pipeline of the            *)
(* positioning visualizer: SimpleRAGService (src/services/                *)
(* simpleRAGService.ts) running against the generation_cache and          *)
(* embedding_cache tables of supabase-setup.sql.                          *)
(*                                                                         *)
(* Text is a sequence of atoms.  An atom is one character of a request    *)
(* field, one word of a generation response, or one literal chunk of a    *)
(* template in the code.  The clock counts days.                          *)
(***************************************************************************)
EXTENDS Integers, Sequences, FiniteSets, TLC

(* ------------------------- program constants -------------------------- *)
TTL == 7
KeyPrefixLen == 50
DefaultHitCount == 1

(* two call chains of generatePositioning may be in flight at once        *)
Calls == {"a", "b"}

(* ------------------------------ text ---------------------------------- *)
Whitespace == {" ", "\n"}

LowerPairs ==
  { <<"A", "a">>, <<"B", "b">>, <<"C", "c">>, <<"E", "e">>, <<"F", "f">>,
    <<"M", "m">>, <<"O", "o">>, <<"P", "p">>, <<"R", "r">>, <<"S", "s">>,
    <<"Solve", "solve">>, <<"Crm", "crm">>, <<"Teams", "teams">> }

LowerAtom(a) ==
  IF \E p \in LowerPairs : p[1] = a
  THEN (CHOOSE p \in LowerPairs : p[1] = a)[2]
  ELSE a

UpperAtom(a) ==
  IF \E p \in LowerPairs : p[2] = a
  THEN (CHOOSE p \in LowerPairs : p[2] = a)[1]
  ELSE a

toLowerCase(s) == [i \in 1..Len(s) |-> LowerAtom(s[i])]

RECURSIVE TrimStart(_)
TrimStart(s) ==
  IF s # <<>> /\ s[1] \in Whitespace THEN TrimStart(Tail(s)) ELSE s

RECURSIVE TrimEnd(_)
TrimEnd(s) ==
  IF s # <<>> /\ s[Len(s)] \in Whitespace
  THEN TrimEnd(SubSeq(s, 1, Len(s) - 1))
  ELSE s

trim(s) == TrimEnd(TrimStart(s))

substring(s, from, to) ==
  SubSeq(s, from + 1, IF to < Len(s) THEN to ELSE Len(s))

Capitalize(s) == IF s = <<>> THEN s ELSE <<UpperAtom(s[1])>> \o Tail(s)

RECURSIVE SplitBy(_, _)
SplitBy(s, seps) ==
  IF \E i \in 1..Len(s) : s[i] \in seps
  THEN LET i == CHOOSE j \in 1..Len(s) :
                  s[j] \in seps /\ \A k \in 1..(j - 1) : s[k] \notin seps
       IN <<SubSeq(s, 1, i - 1)>> \o SplitBy(SubSeq(s, i + 1, Len(s)), seps)
  ELSE <<s>>

RECURSIVE NonBlank(_)
NonBlank(ss) ==
  IF ss = <<>> THEN <<>>
  ELSE IF trim(ss[1]) # <<>> THEN <<ss[1]>> \o NonBlank(Tail(ss))
       ELSE NonBlank(Tail(ss))

RECURSIVE JoinWith(_, _)
JoinWith(ss, sep) ==
  IF ss = <<>> THEN <<>>
  ELSE IF Len(ss) = 1 THEN ss[1]
       ELSE ss[1] \o sep \o JoinWith(Tail(ss), sep)

(* ---------------------------- requests -------------------------------- *)
(* CoreMessaging with its generationSettings; temperature and top_p are   *)
(* given in hundredths.                                                   *)
Requests ==
  << [ primary |-> <<"C", "R", "M">>, secondary |-> <<"O", "p", "s">>,
       problem |-> <<"S", "l", "o", "w">>, differentiator |-> <<"F", "a", "s", "t">>,
       icp |-> << <<"P", "M", "s">> >>,
       thesis |-> <<"belief">>, risks |-> <<"churn">>,
       temperature |-> 30, top_p |-> 80 ],
     [ primary |-> <<"c", "r", "m">>, secondary |-> <<>>,
       problem |-> <<"S", "l", "o", "w">>, differentiator |-> <<"F", "a", "s", "t">>,
       icp |-> << <<"O", "p", "s">>, <<"P", "M", "s">> >>,
       thesis |-> <<>>, risks |-> <<"other">>,
       temperature |-> 34, top_p |-> 80 ] >>

ReqIds == 1..Len(Requests)

(* Math.floor in place of Math.round                                      *)
RoundTenths_Floor(h) == h \div 10

(* Math.round(x * 10) for x given in hundredths                           *)
RoundTenths(h) == (h + 5) \div 10

(* The SHA-256 hex digest is taken to be injective on its input, so the   *)
(* hashed text itself stands for the digest.                              *)
hashString(text) == text

(* the secondary anchor is made part of keyData                           *)
generateCacheKey_WithSecondary(r) ==
  hashString(<< trim(toLowerCase(r.primary)),
                toLowerCase(substring(r.problem, 0, KeyPrefixLen)),
                toLowerCase(substring(r.differentiator, 0, KeyPrefixLen)),
                RoundTenths(r.temperature),
                RoundTenths(r.top_p),
                r.secondary >>)

generateCacheKey(r) ==
  hashString(<< trim(toLowerCase(r.primary)),
                toLowerCase(substring(r.problem, 0, KeyPrefixLen)),
                toLowerCase(substring(r.differentiator, 0, KeyPrefixLen)),
                RoundTenths(r.temperature),
                RoundTenths(r.top_p) >>)

(* [...].filter(Boolean): the non-empty parts                             *)
RECURSIVE NonEmpty(_)
NonEmpty(ps) ==
  IF ps = <<>> THEN <<>>
  ELSE IF ps[1] # <<>> THEN <<ps[1]>> \o NonEmpty(Tail(ps))
       ELSE NonEmpty(Tail(ps))

buildUserText(r) ==
  JoinWith(NonEmpty(<< r.primary, r.secondary, r.problem, r.differentiator,
                       JoinWith(r.icp, <<" ">>) >>), <<" ">>)

EmbeddingHash(r) == hashString(trim(toLowerCase(buildUserText(r))))

(* ----------------------- generated content ---------------------------- *)
(* the headline is built without the secondary anchor                     *)
createFallbackContent_NoSecondary(r) ==
  [ headline |-> <<"Professional ">> \o r.primary,
    subheadline |-> <<"Solve ">> \o toLowerCase(r.problem) \o <<" with ">>
                      \o toLowerCase(r.differentiator),
    thesis |-> r.thesis,
    risks |-> r.risks,
    opportunity |-> (IF r.secondary # <<>> THEN r.secondary ELSE <<"Businesses">>)
                      \o <<" can improve efficiency by implementing ">>
                      \o r.primary \o <<" solutions.">> ]

createFallbackContent(r) ==
  [ headline |-> IF r.secondary # <<>>
                 THEN r.primary \o <<" for ">> \o toLowerCase(r.secondary)
                 ELSE <<"Professional ">> \o r.primary,
    subheadline |-> <<"Solve ">> \o toLowerCase(r.problem) \o <<" with ">>
                      \o toLowerCase(r.differentiator),
    thesis |-> r.thesis,
    risks |-> r.risks,
    opportunity |-> (IF r.secondary # <<>> THEN r.secondary ELSE <<"Businesses">>)
                      \o <<" can improve efficiency by implementing ">>
                      \o r.primary \o <<" solutions.">> ]

DefaultHeadline == <<"Professional solution for your needs">>
DefaultSubheadline == <<"Streamline your workflow without complexity">>
DefaultOpportunity == <<"Significant market opportunity for targeted solutions">>

HeadlinePrefix == "HEADLINE:"
SubheadlinePrefix == "SUBHEADLINE:"
OpportunityPrefix == "OPPORTUNITY:"

includesColon(line) ==
  \E i \in 1..Len(line) :
     line[i] \in {":", HeadlinePrefix, SubheadlinePrefix, OpportunityPrefix}

startsWith(line, prefix) == line # <<>> /\ line[1] = prefix

indexOf(lines, line) == CHOOSE i \in 1..Len(lines) :
                           lines[i] = line /\ \A j \in 1..(i - 1) : lines[j] # line

RECURSIVE Continuation(_, _)
Continuation(lines, next) ==
  IF next <= Len(lines) /\ ~includesColon(lines[next])
  THEN <<" ">> \o trim(lines[next]) \o Continuation(lines, next + 1)
  ELSE <<>>

RECURSIVE ScanLines(_, _, _)
ScanLines(lines, i, acc) ==
  IF i > Len(lines) THEN acc
  ELSE LET line == lines[i]
       IN IF startsWith(line, HeadlinePrefix)
          THEN ScanLines(lines, i + 1, [acc EXCEPT !.headline = trim(Tail(line))])
          ELSE IF startsWith(line, SubheadlinePrefix)
          THEN ScanLines(lines, i + 1, [acc EXCEPT !.subheadline = trim(Tail(line))])
          ELSE IF startsWith(line, OpportunityPrefix)
          THEN ScanLines(lines, i + 1,
                 [acc EXCEPT !.opportunity =
                    trim(Tail(line)) \o Continuation(lines, indexOf(lines, line) + 1)])
          ELSE ScanLines(lines, i + 1, acc)

StripSolve(text) ==
  IF text # <<>> /\ LowerAtom(text[1]) = "solve" THEN TrimStart(Tail(text)) ELSE text

(* one sentence is enough for a headline                                  *)
DegradedParse_OneSentence(text) ==
  LET cleanedText == trim(StripSolve(text))
      sentences == NonBlank(SplitBy(cleanedText, {".", "!", "?"}))
  IN IF Len(sentences) >= 1
     THEN [ headline |-> Capitalize(trim(sentences[1])),
            subheadline |-> Capitalize(trim(JoinWith(Tail(sentences), <<".", " ">>))),
            opportunity |-> <<>> ]
     ELSE [ headline |-> <<>>, subheadline |-> <<>>, opportunity |-> <<>> ]

DegradedParse(text) ==
  LET cleanedText == trim(StripSolve(text))
      sentences == NonBlank(SplitBy(cleanedText, {".", "!", "?"}))
  IN IF Len(sentences) >= 2
     THEN [ headline |-> Capitalize(trim(sentences[1])),
            subheadline |-> Capitalize(trim(JoinWith(Tail(sentences), <<".", " ">>))),
            opportunity |-> <<>> ]
     ELSE [ headline |-> <<>>, subheadline |-> <<>>, opportunity |-> <<>> ]

(* the parsed text is used even when it is empty                          *)
OrDefault_None(s, default) == s

(* headline || '...', subheadline || '...', opportunity || '...'          *)
OrDefault(s, default) == IF s # <<>> THEN s ELSE default

parseResponse(generatedText) ==
  LET lines == NonBlank(SplitBy(generatedText, {"\n"}))
      scanned == ScanLines(lines, 1,
                   [ headline |-> <<>>, subheadline |-> <<>>, opportunity |-> <<>> ])
      parsed == IF scanned.headline = <<>> /\ scanned.subheadline = <<>>
                     /\ scanned.opportunity = <<>>
                THEN DegradedParse(generatedText)
                ELSE scanned
  IN [ headline |-> OrDefault(parsed.headline, DefaultHeadline),
       subheadline |-> OrDefault(parsed.subheadline, DefaultSubheadline),
       thesis |-> <<>>,
       risks |-> <<>>,
       opportunity |-> OrDefault(parsed.opportunity, DefaultOpportunity) ]

(* ------------------------ external services --------------------------- *)
(* Texts the generation service may answer with when it succeeds:         *)
(* the three-line contract, an unformatted answer, and an empty answer.   *)
Responses ==
  << << HeadlinePrefix, " ", "Crm", " ", "for", " ", "ops", "\n",
        SubheadlinePrefix, " ", "teams", " ", "move", " ", "fast", ".", "\n",
        OpportunityPrefix, " ", "growing", " ", "market" >>,
     << "Solve", " ", "crm", " ", "helps", ".", " ", "teams", " ", "move", "." >>,
     << >> >>

RespIds == 1..Len(Responses)

(* ways the call to the generation backend fails                          *)
GenerationFailures == {"fetch_throws", "http_status", "unsuccessful"}

(* vectors the embedding backend may answer with                          *)
Embeddings == {"e1"}
ZeroVector == "zero"

(* row lists the vector store may answer with (company names)             *)
VectorAnswers == { <<>>, <<"Acme">> }

getFallbackExamples == <<"Wynter">>

NoContent ==
  [ headline |-> <<>>, subheadline |-> <<>>, thesis |-> <<>>, risks |-> <<>>,
    opportunity |-> <<>> ]

(* ------------------------------ state --------------------------------- *)
VARIABLES
  now,            \* wall clock, in days
  genCache,       \* rows of table generation_cache
  embDb,          \* rows of table embedding_cache
  embMem,         \* SimpleRAGService.embeddingCache (in-process Map), as pairs
  isInitialized,  \* SimpleRAGService.isInitialized
  call,           \* per call chain: position and locals of generatePositioning
  hist,           \* per call chain: what the chain has done so far (history)
  lastWrite,      \* request and day of the last cacheResult call
  keyIn,          \* generateCacheKey: the two requests it is applied to
  keyOut,         \* generateCacheKey: the two keys returned
  hlIn,           \* canvas: the texts and the request being rendered
  hl,             \* canvas: locals of getHighlights and createHighlightedText
  parseIn,        \* parseResponse: the response text it is applied to
  parseOut,       \* parseResponse: the content returned
  clauseIn,       \* canvas: the clause that is classified
  clauseOut,      \* canvas: the phrases pushed for the clause
  srvReq,         \* server: req.body of POST /api/generate-positioning
  srvRes,         \* server: the response, and the calls made to OpenAI
  appState,       \* App: the React state versions and currentVersionId
  localStorage,   \* browser: the three keys of STORAGE_KEYS
  autoSaveTimeout \* StorageService.autoSaveTimeout and the timer's closure

(* the pipeline's state, and the inputs and results of the functions that *)
(* are evaluated on their own                                             *)
pipelineVars == << now, genCache, embDb, embMem, isInitialized, call, hist, lastWrite >>
keyVars == << keyIn, keyOut >>
hlVars == << hlIn, hl >>
parseVars == << parseIn, parseOut >>
classifyVars == << clauseIn, clauseOut >>
serverVars == << srvReq, srvRes >>
storageVars == << appState, localStorage, autoSaveTimeout >>
pureVars == << keyVars, hlVars, parseVars, classifyVars, serverVars, storageVars >>
vars == << pipelineVars, pureVars >>

NoEmbedding == "none"

(* embedding is a local of findSimilarExamples and examples a local of    *)
(* generatePositioning that is dead once the prompt is built              *)
IdleCall ==
  [ pc |-> "idle", req |-> 1, embedding |-> NoEmbedding, examples |-> <<>>,
    result |-> NoContent, outcome |-> "pending" ]

NoLookup ==
  [ done |-> FALSE, stored |-> FALSE, age |-> "none", fault |-> FALSE,
    hit |-> FALSE ]

NoRetrieval ==
  [ embCalls |-> 0, embFailed |-> FALSE, insertFault |-> FALSE,
    vecCalls |-> 0, vecOutcome |-> "none" ]

(* priorSuccess, allFailed, cacheChanged and zeroRows (the vector store   *)
(* answered with no rows) cover the whole call; lookup                    *)
(* describes the select of getCachedResult and is cleared when retrieval  *)
(* starts; retrieval describes the findSimilarExamples call and is        *)
(* cleared when generation starts                                         *)
NoHist ==
  [ priorSuccess |-> FALSE, allFailed |-> TRUE, cacheChanged |-> FALSE,
    zeroRows |-> FALSE,
    lookup |-> NoLookup, retrieval |-> NoRetrieval,
    genCalls |-> 0, genOutcome |-> "none", response |-> 0,
    cacheResultCalls |-> 0, writeFault |-> FALSE ]

NoWrite == [ set |-> FALSE, req |-> 1, at |-> 0 ]

(* a variable of a function that is not being evaluated holds no value   *)
NotComputed == <<>>

InitPipeline ==
  /\ now = 0
  /\ genCache = {}
  /\ embDb = {}
  /\ embMem = {}
  /\ isInitialized = FALSE
  /\ call = [c \in Calls |-> IdleCall]
  /\ hist = [c \in Calls |-> NoHist]
  /\ lastWrite = NoWrite

(* no function is being evaluated on its own                              *)
IdleKey == keyIn = NotComputed /\ keyOut = NotComputed

IdleHighlight == hlIn = NotComputed /\ hl = NotComputed
IdleParse == parseIn = NotComputed /\ parseOut = NotComputed
IdleClassify == clauseIn = NotComputed /\ clauseOut = NotComputed
IdleServer == srvReq = NotComputed /\ srvRes = NotComputed
IdleStorage ==
  appState = NotComputed /\ localStorage = NotComputed /\ autoSaveTimeout = NotComputed

InitPure ==
  IdleKey /\ IdleHighlight /\ IdleParse /\ IdleClassify /\ IdleServer /\ IdleStorage

Init == InitPipeline /\ InitPure

(* the cache key, the embedding hash and the raw user text of each        *)
(* request, and the parse of each response                                *)
KeyOf == [r \in ReqIds |-> generateCacheKey(Requests[r])]
HashOf == [r \in ReqIds |-> EmbeddingHash(Requests[r])]
UserTextOf == [r \in ReqIds |-> buildUserText(Requests[r])]
ParsedOf == [i \in RespIds |-> parseResponse(Responses[i])]

Req(c) == Requests[call[c].req]
Key(c) == KeyOf[call[c].req]
Hash(c) == HashOf[call[c].req]

(* ------------------------ generation_cache ---------------------------- *)
RowsOf(table, key) == { row \in table : row.cache_key = key }

(* the select written with gte in place of gt                             *)
FreshRows_Inclusive(table, key, t) ==
  { row \in RowsOf(table, key) : row.expires_at >= t }

(* .eq('cache_key', k).gt('expires_at', now): the rows the select matches *)
FreshRows(table, key, t) == { row \in RowsOf(table, key) : row.expires_at > t }

(* a select that failed still hands out the stored row                    *)
SelectCached_IgnoreFault(table, key, t, fault) ==
  IF Cardinality(FreshRows(table, key, t)) = 1
  THEN FreshRows(table, key, t)
  ELSE {}

(* .single(): data is the one matching row, and null when no row (or more *)
(* than one) matches or the request fails                                 *)
SelectCached(table, key, t, fault) ==
  IF ~fault /\ Cardinality(FreshRows(table, key, t)) = 1
  THEN FreshRows(table, key, t)
  ELSE {}

(* upsert() without onConflict resolves conflicts on the primary key id,  *)
(* which the payload does not carry: the row is inserted with a new id,   *)
(* and the insert is rejected when cache_key (UNIQUE) is already stored.  *)
(* The returned error is not inspected.                                   *)
UpsertGenerationCache(table, key, content, t, fault) ==
  IF fault \/ RowsOf(table, key) # {}
  THEN table
  ELSE table \cup { [ cache_key |-> key, content |-> content,
                      expires_at |-> t + TTL, hit_count |-> DefaultHitCount ] }

(* the statement in the body of increment_cache_hit:                      *)
(* UPDATE generation_cache SET hit_count = hit_count + 1 WHERE cache_key = *)
(* <the parameter>                                                         *)
UpdateHitCount(table, key) ==
  { IF row.cache_key = key THEN [row EXCEPT !.hit_count = @ + 1] ELSE row :
      row \in table }

(* The function's parameter is named cache_key like the column, and the   *)
(* WHERE clause compares the unqualified name cache_key with              *)
(* increment_cache_hit.cache_key.  PL/pgSQL (variable_conflict = error,   *)
(* the default) rejects the unqualified name as an ambiguous column       *)
(* reference when the statement is executed: the call raises, no row is   *)
(* updated, and the rpc answers with an error.                            *)
increment_cache_hit(table, key) == table

cleanup_expired_cache(table, t) == { row \in table : ~(row.expires_at < t) }

(* ------------------------ generatePositioning ------------------------- *)
(* the call goes to findSimilarExamples before it looks at the cache      *)
Start_RetrievalFirst(c, r) ==
  /\ call[c].pc = "idle"
  /\ isInitialized' = TRUE
  /\ call' = [call EXCEPT ![c] = [IdleCall EXCEPT !.pc = "embed", !.req = r]]
  /\ hist' = [hist EXCEPT ![c] = NoHist]
  /\ UNCHANGED << now, genCache, embDb, embMem, lastWrite, pureVars >>

(* initialize() and generateCacheKey; the call is made with request r     *)
Start(c, r) ==
  /\ call[c].pc = "idle"
  /\ isInitialized' = TRUE
  /\ call' = [call EXCEPT ![c] = [IdleCall EXCEPT !.pc = "lookup", !.req = r]]
  /\ hist' = [hist EXCEPT ![c] = NoHist]
  /\ UNCHANGED << now, genCache, embDb, embMem, lastWrite, pureVars >>

AgeAt(rows, t) ==
  IF rows = {} THEN "none"
  ELSE LET e == (CHOOSE row \in rows : TRUE).expires_at
       IN IF t < e THEN "before" ELSE IF t = e THEN "at" ELSE "after"

(* getCachedResult: the select                                            *)
Lookup(c, fault) ==
  /\ call[c].pc = "lookup"
  /\ LET data == SelectCached(genCache, Key(c), now, fault)
         rows == RowsOf(genCache, Key(c))
         rec == [ done |-> TRUE, stored |-> rows # {}, age |-> AgeAt(rows, now),
                  fault |-> fault, hit |-> data # {} ]
     IN /\ hist' = [hist EXCEPT ![c].lookup = rec,
                                ![c].allFailed = @ /\ fault]
        /\ call' = IF data # {}
                    THEN [call EXCEPT ![c].pc = "hit",
                            ![c].result = (CHOOSE row \in data : TRUE).content]
                    ELSE [call EXCEPT ![c].pc = "embed"]
  /\ UNCHANGED << now, genCache, embDb, embMem, isInitialized, lastWrite, pureVars >>

(* getCachedResult: the hit counter (best effort; the error that the rpc  *)
(* answers with is not inspected), then return the cached content.        *)
CountHit(c, fault) ==
  /\ call[c].pc = "hit"
  /\ genCache' = IF fault THEN genCache ELSE increment_cache_hit(genCache, Key(c))
  /\ call' = [call EXCEPT ![c].pc = "done", ![c].outcome = "resolved"]
  /\ hist' = [hist EXCEPT ![c].cacheChanged = (genCache' # genCache)]
  /\ UNCHANGED << now, embDb, embMem, isInitialized, lastWrite, pureVars >>

(* -------------------------- embedding tiers --------------------------- *)
MemHas(h) == \E p \in embMem : p.text_hash = h
MemGet(h) == (CHOOSE p \in embMem : p.text_hash = h).embedding
(* the in-process map is left as it is                                    *)
MemSet_Skip(mem, h, e) == mem

MemSet(mem, h, e) ==
  { p \in mem : p.text_hash # h } \cup { [ text_hash |-> h, embedding |-> e ] }

(* .from('embedding_cache').select('embedding').eq('text_hash', h).single() *)
SelectEmbedding(table, h, fault) ==
  IF ~fault /\ Cardinality({ row \in table : row.text_hash = h }) = 1
  THEN { row \in table : row.text_hash = h }
  ELSE {}

(* the insert replaces the row stored under the hash                      *)
InsertEmbedding_Replace(table, text, h, e, fault) ==
  IF fault THEN table
  ELSE { row \in table : row.text_hash # h }
         \cup { [ text |-> text, text_hash |-> h, embedding |-> e ] }

(* insert into embedding_cache: text and text_hash are both UNIQUE; a     *)
(* rejected insert returns an error that is not inspected.                *)
InsertEmbedding(table, text, h, e, fault) ==
  IF fault \/ \E row \in table : row.text = text \/ row.text_hash = h
  THEN table
  ELSE table \cup { [ text |-> text, text_hash |-> h, embedding |-> e ] }

(* getEmbeddingCached: hash the text and consult the in-process map       *)
EmbedMem(c) ==
  /\ call[c].pc = "embed"
  /\ call' = IF MemHas(Hash(c))
             THEN [call EXCEPT ![c].pc = "search",
                               ![c].embedding = MemGet(Hash(c))]
             ELSE [call EXCEPT ![c].pc = "emb_db"]
  /\ hist' = [hist EXCEPT ![c].lookup = NoLookup]
  /\ UNCHANGED << now, genCache, embDb, embMem, isInitialized, lastWrite, pureVars >>

(* getEmbeddingCached: consult the persistent embedding cache             *)
EmbedDbRead(c, fault) ==
  /\ call[c].pc = "emb_db"
  /\ LET h == Hash(c)
         data == SelectEmbedding(embDb, h, fault)
         e == (CHOOSE row \in data : TRUE).embedding
     IN /\ embMem' = IF data # {} THEN MemSet(embMem, h, e) ELSE embMem
        /\ call' = IF data # {}
                    THEN [call EXCEPT ![c].pc = "search", ![c].embedding = e]
                    ELSE [call EXCEPT ![c].pc = "emb_gen"]
  /\ hist' = [hist EXCEPT ![c].allFailed = @ /\ fault]
  /\ UNCHANGED << now, genCache, embDb, isInitialized, lastWrite, pureVars >>

(* generateEmbedding succeeds with vector e                               *)
EmbedGenerateOk(c, e) ==
  /\ call[c].pc = "emb_gen"
  /\ call' = [call EXCEPT ![c].pc = "emb_ins", ![c].embedding = e]
  /\ hist' = [hist EXCEPT ![c].retrieval.embCalls = @ + 1,
                          ![c].allFailed = FALSE]
  /\ UNCHANGED << now, genCache, embDb, embMem, isInitialized, lastWrite, pureVars >>

(* the embedding error ends retrieval without a vector search            *)
OnEmbeddingFailure_Skip == [ pc |-> "generate", embedding |-> NoEmbedding ]

(* the zero vector is written through like a computed embedding          *)
OnEmbeddingFailure_Stored == [ pc |-> "emb_ins", embedding |-> ZeroVector ]

(* generateEmbedding throws; what getEmbeddingCached answers instead      *)
OnEmbeddingFailure == [ pc |-> "search", embedding |-> ZeroVector ]

EmbedGenerateFail(c) ==
  /\ call[c].pc = "emb_gen"
  /\ call' = [call EXCEPT ![c].pc = OnEmbeddingFailure.pc,
                          ![c].embedding = OnEmbeddingFailure.embedding]
  /\ hist' = [hist EXCEPT ![c].retrieval.embCalls = @ + 1,
                          ![c].retrieval.embFailed = TRUE]
  /\ UNCHANGED << now, genCache, embDb, embMem, isInitialized, lastWrite, pureVars >>

(* getEmbeddingCached: write through to embedding_cache and to the map    *)
EmbedInsert(c, fault) ==
  /\ call[c].pc = "emb_ins"
  /\ LET h == Hash(c)
     IN /\ embDb' = InsertEmbedding(embDb, UserTextOf[call[c].req], h,
                                    call[c].embedding, fault)
        /\ embMem' = MemSet(embMem, h, call[c].embedding)
  /\ call' = [call EXCEPT ![c].pc = "search"]
  /\ hist' = [hist EXCEPT ![c].retrieval.insertFault = fault]
  /\ UNCHANGED << now, genCache, isInitialized, lastWrite, pureVars >>

(* --------------------------- vector search ---------------------------- *)
VectorOutcomes == {"error", "null", "rows"}

(* an empty row list is replaced by the fallback examples                 *)
ExamplesFor_EmptyFallback(outcome, data) ==
  IF outcome = "rows" /\ data # <<>> THEN data ELSE getFallbackExamples

(* what findSimilarExamples returns for the answer {data, error} of the   *)
(* rpc; a JavaScript array, empty or not, is truthy                       *)
ExamplesFor(outcome, data) ==
  IF outcome = "error" THEN getFallbackExamples
  ELSE IF outcome = "null" THEN getFallbackExamples
  ELSE data

VectorSearch(c, outcome, data) ==
  /\ call[c].pc = "search"
  /\ call' = [call EXCEPT ![c].pc = "generate",
                          ![c].embedding = NoEmbedding,
                          ![c].examples = ExamplesFor(outcome, data)]
  /\ hist' = [hist EXCEPT ![c].retrieval.vecCalls = @ + 1,
                          ![c].retrieval.vecOutcome = outcome,
                          ![c].zeroRows = (outcome = "rows" /\ data = <<>>),
                          ![c].allFailed = @ /\ outcome = "error"]
  /\ UNCHANGED << now, genCache, embDb, embMem, isInitialized, lastWrite, pureVars >>

(* ----------------------------- generation ----------------------------- *)
(* a call with the same request returned a generated (non-fallback)       *)
(* result less than TTL ago                                               *)
PriorSuccess(r) ==
  lastWrite.set /\ lastWrite.req = r /\ now < lastWrite.at + TTL

(* generateWithSettings returned the parsed response                      *)
OnGenerationSuccess(resp) ==
  [ pc |-> "cache", result |-> ParsedOf[resp], outcome |-> "pending" ]

(* the catch of generatePositioning lets the error through                *)
OnGenerationFailure_Rethrow(r) ==
  [ pc |-> "done", result |-> NoContent, outcome |-> "rejected" ]

(* the fallback content is handed to cacheResult like a generated result  *)
OnGenerationFailure_Cached(r) ==
  [ pc |-> "cache", result |-> createFallbackContent(r), outcome |-> "pending" ]

(* generateWithSettings threw; the catch of generatePositioning           *)
OnGenerationFailure(r) ==
  [ pc |-> "done", result |-> createFallbackContent(r), outcome |-> "resolved" ]

Continue(c, k) ==
  [call EXCEPT ![c].pc = k.pc, ![c].result = k.result, ![c].outcome = k.outcome,
               ![c].examples = <<>>]

GenerateOk(c, resp) ==
  /\ call[c].pc = "generate"
  /\ call' = Continue(c, OnGenerationSuccess(resp))
  /\ hist' = [hist EXCEPT ![c].genCalls = @ + 1, ![c].genOutcome = "ok",
                          ![c].priorSuccess = PriorSuccess(call[c].req),
                          ![c].response = resp, ![c].allFailed = FALSE,
                          ![c].retrieval = NoRetrieval]
  /\ UNCHANGED << now, genCache, embDb, embMem, isInitialized, lastWrite, pureVars >>

GenerateFail(c, kind) ==
  /\ call[c].pc = "generate"
  /\ kind \in GenerationFailures
  /\ call' = Continue(c, OnGenerationFailure(Req(c)))
  /\ hist' = [hist EXCEPT ![c].genCalls = @ + 1, ![c].genOutcome = "failed",
                          ![c].priorSuccess = PriorSuccess(call[c].req),
                          ![c].retrieval = NoRetrieval]
  /\ UNCHANGED << now, genCache, embDb, embMem, isInitialized, lastWrite, pureVars >>

(* cacheResult, then generatePositioning returns the generated result     *)
CacheWrite(c, fault) ==
  /\ call[c].pc = "cache"
  /\ genCache' = UpsertGenerationCache(genCache, Key(c), call[c].result, now, fault)
  /\ call' = [call EXCEPT ![c].pc = "done", ![c].outcome = "resolved"]
  /\ hist' = [hist EXCEPT ![c].cacheResultCalls = @ + 1,
                          ![c].writeFault = fault,
                          ![c].cacheChanged = @ \/ (genCache' # genCache)]
  /\ lastWrite' = [ set |-> TRUE, req |-> call[c].req, at |-> now ]
  /\ UNCHANGED << now, embDb, embMem, isInitialized, pureVars >>

(* the caller has received the result; the chain is free for a new call   *)
Return(c) ==
  /\ call[c].pc = "done"
  /\ call' = [call EXCEPT ![c] = IdleCall]
  /\ hist' = [hist EXCEPT ![c] = NoHist]
  /\ UNCHANGED << now, genCache, embDb, embMem, isInitialized, lastWrite, pureVars >>

(* ----------------------------- environment ---------------------------- *)
(* The clock is observed on day 0 and on the days around the expiry of an *)
(* entry written on day 0: the day before, the expiry day, the day after. *)
Instants == {0, TTL - 1, TTL, TTL + 1}

Tick ==
  /\ \E t \in Instants : t > now
  /\ now' = CHOOSE t \in Instants : t > now /\ \A u \in Instants : u > now => t <= u
  /\ UNCHANGED << genCache, embDb, embMem, isInitialized, call, hist,
                  lastWrite, pureVars >>

(* the page is reloaded: a new SimpleRAGService is constructed, the       *)
(* tables persist                                                         *)
Reload ==
  /\ \A c \in Calls : call[c].pc = "idle"
  /\ isInitialized
  /\ embMem' = {}
  /\ isInitialized' = FALSE
  /\ UNCHANGED << now, genCache, embDb, call, hist, lastWrite, pureVars >>

CleanupExpired ==
  /\ genCache' = cleanup_expired_cache(genCache, now)
  /\ genCache' # genCache
  /\ UNCHANGED << now, embDb, embMem, isInitialized, call, hist,
                  lastWrite, pureVars >>

CallStep(c) ==
  \/ \E fault \in BOOLEAN : Lookup(c, fault)
  \/ \E fault \in BOOLEAN : CountHit(c, fault)
  \/ EmbedMem(c)
  \/ \E fault \in BOOLEAN : EmbedDbRead(c, fault)
  \/ \E e \in Embeddings : EmbedGenerateOk(c, e)
  \/ EmbedGenerateFail(c)
  \/ \E fault \in BOOLEAN : EmbedInsert(c, fault)
  \/ \E outcome \in VectorOutcomes :
        \E data \in (IF outcome = "rows" THEN VectorAnswers ELSE {<<>>}) :
           VectorSearch(c, outcome, data)
  \/ \E resp \in RespIds : GenerateOk(c, resp)
  \/ \E kind \in GenerationFailures : GenerateFail(c, kind)
  \/ \E fault \in BOOLEAN : CacheWrite(c, fault)

(* one call chain at a time: the caller awaits each call                  *)
StartAlone(c, r) ==
  /\ c = "a"
  /\ \A d \in Calls : call[d].pc = "idle"
  /\ Start(c, r)

Next ==
  \/ \E c \in Calls, r \in ReqIds : StartAlone(c, r)
  \/ \E c \in Calls : CallStep(c)
  \/ \E c \in Calls : Return(c)
  \/ Reload
  \/ Tick
  \/ CleanupExpired

Spec == Init /\ [][Next]_vars

(* The same program against a store that never fails: every select,      *)
(* insert, upsert and rpc on the cache tables is answered.  The           *)
(* embedding, vector and generation services still fail.                  *)
ReliableStep(c) ==
  \/ Lookup(c, FALSE)
  \/ CountHit(c, FALSE)
  \/ EmbedMem(c)
  \/ EmbedDbRead(c, FALSE)
  \/ \E e \in Embeddings : EmbedGenerateOk(c, e)
  \/ EmbedGenerateFail(c)
  \/ EmbedInsert(c, FALSE)
  \/ \E outcome \in VectorOutcomes :
        \E data \in (IF outcome = "rows" THEN VectorAnswers ELSE {<<>>}) :
           VectorSearch(c, outcome, data)
  \/ \E resp \in RespIds : GenerateOk(c, resp)
  \/ \E kind \in GenerationFailures : GenerateFail(c, kind)
  \/ CacheWrite(c, FALSE)

NextReliable ==
  \/ \E c \in Calls, r \in ReqIds : StartAlone(c, r)
  \/ \E c \in Calls : ReliableStep(c)
  \/ \E c \in Calls : Return(c)
  \/ Reload
  \/ Tick
  \/ CleanupExpired

SpecReliable == Init /\ [][NextReliable]_vars

(* Two calls in flight at once (the caller does not await the first)     *)
(* against a store that never fails, within one day.                      *)
NextConcurrent ==
  \/ \E c \in Calls, r \in ReqIds : Start(c, r)
  \/ \E c \in Calls : ReliableStep(c)
  \/ \E c \in Calls : Return(c)

SpecConcurrent == Init /\ [][NextConcurrent]_vars

(* ------------------- generateCacheKey on its own ---------------------- *)
(* problem and differentiator texts longer than the key prefix            *)
Pad(a) == [i \in 1..KeyPrefixLen |-> a]

(* the parts of a request that generateCacheKey does not read             *)
OtherFields ==
  { [ primaryType |-> "Product Category", secondaryType |-> "Department",
      secondary |-> <<"O", "p", "s">>, icp |-> << <<"P", "M", "s">> >>,
      thesis |-> <<"belief">>, risks |-> <<"churn">>,
      differentiator |-> Pad("f") \o <<"x">> ],
    [ primaryType |-> "Use Case", secondaryType |-> "",
      secondary |-> <<>>, icp |-> << <<"O", "p", "s">>, <<"P", "M", "s">> >>,
      thesis |-> <<>>, risks |-> <<"other">>,
      differentiator |-> Pad("f") \o <<"y">> ] }

KeyInputs ==
  { [ primary |-> p, primaryType |-> o.primaryType,
      secondary |-> o.secondary, secondaryType |-> o.secondaryType,
      problem |-> pr, differentiator |-> o.differentiator,
      icp |-> o.icp, thesis |-> o.thesis, risks |-> o.risks,
      temperature |-> te, top_p |-> tp ] :
      p \in { <<"C", "R", "M">>, <<" ", "c", "r", "m", " ">>, <<"E", "R", "P">> },
      o \in OtherFields,
      pr \in { Pad("s") \o <<"x">>, Pad("S") \o <<"y">>, <<"S", "l", "o", "w">> },
      te \in {31, 34, 36},
      tp \in {80, 86} }

KeyTable == [r \in KeyInputs |-> generateCacheKey(r)]

InitKey ==
  /\ InitPipeline /\ IdleHighlight /\ IdleParse
  /\ IdleClassify /\ IdleServer /\ IdleStorage
  /\ keyIn \in KeyInputs \X KeyInputs
  /\ keyOut = NotComputed

(* generateCacheKey(coreMessaging, settings) for each of the two requests *)
ComputeKeys ==
  /\ keyIn # NotComputed
  /\ keyOut = NotComputed
  /\ keyOut' = << KeyTable[keyIn[1]], KeyTable[keyIn[2]] >>
  /\ UNCHANGED << pipelineVars, keyIn, hlVars, parseVars,
                  classifyVars, serverVars, storageVars >>

NextKey == ComputeKeys

SpecKey == InitKey /\ [][NextKey]_vars


(* ====================== highlighting (canvas) ========================= *)
(* PositioningCanvas.tsx.  Here a text is a sequence of characters, and   *)
(* positions in it count from 0 as in the code.                           *)
colors ==
  [ primaryAnchor |-> "#fef3c7", secondaryAnchor |-> "#dbeafe",
    problem |-> "#fecaca", differentiator |-> "#dcfce7", value |-> "#f3e8ff" ]

MinWords == 4
MaxWords == 8
MergeGap == 2

(* sub occurs in s at position i                                          *)
Matches(s, sub, i) ==
  i + Len(sub) <= Len(s) /\ SubSeq(s, i + 1, i + Len(sub)) = sub

(* s.indexOf(sub, from)                                                   *)
strIndexOf(s, sub, from) ==
  LET hits == { i \in from..Len(s) : Matches(s, sub, i) }
  IN IF hits = {} THEN -1 ELSE CHOOSE i \in hits : \A j \in hits : i <= j

(* s.lastIndexOf(sub)                                                     *)
lastIndexOf(s, sub) ==
  LET hits == { i \in 0..Len(s) : Matches(s, sub, i) }
  IN IF hits = {} THEN -1 ELSE CHOOSE i \in hits : \A j \in hits : i >= j

includes(s, sub) == strIndexOf(s, sub, 0) # -1

(* the position after the whitespace that starts at i                     *)
RECURSIVE SkipSpaces(_, _)
SkipSpaces(s, i) ==
  IF i < Len(s) /\ s[i + 1] \in Whitespace THEN SkipSpaces(s, i + 1) ELSE i

(* the position after the run of . ! ? that starts at i                   *)
RECURSIVE SkipStops(_, _)
SkipStops(s, i) ==
  IF i < Len(s) /\ s[i + 1] \in {".", "!", "?"} THEN SkipStops(s, i + 1) ELSE i

(* word\s+ at i: the position after it, or -1                             *)
WordThenSpaces(s, i, word) ==
  IF Matches(s, word, i) /\ SkipSpaces(s, i + Len(word)) > i + Len(word)
  THEN SkipSpaces(s, i + Len(word))
  ELSE -1

(* /[.!?]+|,\s*but\s+|,\s*however\s+|,\s*and\s+our\s+/ at i: the position *)
(* after the match, or -1                                                 *)
SeparatorEnd(s, i) ==
  IF s[i + 1] \in {".", "!", "?"} THEN SkipStops(s, i)
  ELSE IF s[i + 1] = ","
  THEN LET j == SkipSpaces(s, i + 1)
           k == WordThenSpaces(s, j, <<"a", "n", "d">>)
       IN IF WordThenSpaces(s, j, <<"b", "u", "t">>) # -1
          THEN WordThenSpaces(s, j, <<"b", "u", "t">>)
          ELSE IF WordThenSpaces(s, j, <<"h", "o", "w", "e", "v", "e", "r">>) # -1
          THEN WordThenSpaces(s, j, <<"h", "o", "w", "e", "v", "e", "r">>)
          ELSE IF k # -1 THEN WordThenSpaces(s, k, <<"o", "u", "r">>)
          ELSE -1
  ELSE -1

(* subheadlineText.split(/.../)                                           *)
RECURSIVE SplitSentences(_, _, _)
SplitSentences(s, i, start) ==
  IF i >= Len(s) THEN << SubSeq(s, start + 1, Len(s)) >>
  ELSE IF SeparatorEnd(s, i) # -1
       THEN << SubSeq(s, start + 1, i) >>
              \o SplitSentences(s, SeparatorEnd(s, i), SeparatorEnd(s, i))
       ELSE SplitSentences(s, i + 1, start)

problemIndicators ==
  << <<"l", "a", "c", "k">>,
    <<"n", "o">>,
    <<"w", "i", "t", "h", "o", "u", "t">>,
    <<"d", "i", "f", "f", "i", "c", "u", "l", "t">>,
    <<"c", "h", "a", "l", "l", "e", "n", "g", "e">>,
    <<"i", "s", "s", "u", "e">>,
    <<"p", "r", "o", "b", "l", "e", "m">>,
    <<"s", "t", "r", "u", "g", "g", "l", "e">>,
    <<"f", "a", "i", "l">>,
    <<"u", "n", "a", "b", "l", "e">>,
    <<"c", "a", "n", "'", "t">>,
    <<"d", "o", "n", "'", "t">>,
    <<"u", "n", "t", "i", "l">>,
    <<"b", "e", "f", "o", "r", "e">>,
    <<"c", "o", "m", "p", "l", "a", "i", "n">>,
    <<"f", "r", "u", "s", "t", "r", "a", "t", "e", "d">>,
    <<"s", "l", "o", "w">>,
    <<"m", "a", "n", "u", "a", "l">>,
    <<"i", "n", "e", "f", "f", "i", "c", "i", "e", "n", "t">>,
    <<"t", "i", "m", "e", "-", "c", "o", "n", "s", "u", "m", "i", "n", "g">>,
    <<"e", "x", "p", "e", "n", "s", "i", "v", "e">>,
    <<"c", "o", "s", "t", "l", "y">> >>

solutionIndicators ==
  << <<"p", "r", "e", "d", "i", "c", "t", "s">>,
    <<"p", "r", "o", "v", "i", "d", "e", "s">>,
    <<"e", "n", "a", "b", "l", "e", "s">>,
    <<"a", "l", "l", "o", "w", "s">>,
    <<"h", "e", "l", "p", "s">>,
    <<"g", "i", "v", "e", "s">>,
    <<"o", "f", "f", "e", "r", "s">>,
    <<"d", "e", "l", "i", "v", "e", "r", "s">>,
    <<"o", "u", "r", " ", "p", "l", "a", "t", "f", "o", "r", "m">>,
    <<"o", "u", "r", " ", "s", "o", "l", "u", "t", "i", "o", "n">>,
    <<"w", "e">>,
    <<"a", "u", "t", "o", "m", "a", "t", "i", "c", "a", "l", "l", "y">>,
    <<"p", "r", "o", "a", "c", "t", "i", "v", "e">>,
    <<"a", "d", "v", "a", "n", "c", "e">>,
    <<"r", "e", "a", "l", "-", "t", "i", "m", "e">>,
    <<"i", "n", "s", "t", "a", "n", "t">>,
    <<"f", "a", "s", "t">>,
    <<"e", "f", "f", "i", "c", "i", "e", "n", "t">>,
    <<"e", "a", "s", "y">>,
    <<"s", "i", "m", "p", "l", "e">>,
    <<"a", "u", "t", "o", "m", "a", "t", "e", "d">> >>

(* indicators.reduce(... includes(indicator) ? 1 : 0 ...)                 *)
Score(lowerSentence, indicators) ==
  Cardinality({ k \in 1..Len(indicators) : includes(lowerSentence, indicators[k]) })

(* [...new Set(chunks)]                                                   *)
RECURSIVE Dedupe(_)
Dedupe(xs) ==
  IF xs = <<>> THEN <<>>
  ELSE LET front == Dedupe(SubSeq(xs, 1, Len(xs) - 1))
           last == xs[Len(xs)]
       IN IF \E k \in 1..Len(front) : front[k] = last
          THEN front ELSE Append(front, last)

(* the loop of breakIntoChunks, from word i (counted from 0)              *)
RECURSIVE Windows(_, _, _, _)
Windows(words, i, minWords, maxWords) ==
  IF i > Len(words) - minWords THEN <<>>
  ELSE LET rest == Len(words) - i
           chunkLength == IF maxWords < rest THEN maxWords ELSE rest
       IN (IF chunkLength >= minWords
           THEN << JoinWith(SubSeq(words, i + 1, i + chunkLength), <<" ">>) >>
           ELSE <<>>)
          \o Windows(words, i + 1, minWords, maxWords)

breakIntoChunks(text, minWords, maxWords) ==
  LET words == NonEmpty(SplitBy(text, {" "}))
  IN Dedupe(Windows(words, 0, minWords, maxWords)
              \o (IF Len(words) <= maxWords THEN << text >> ELSE <<>>))

Colored(chunks, color) == [k \in 1..Len(chunks) |-> [ text |-> chunks[k], color |-> color ]]

(* a clause with as many problem as solution indicators is a problem     *)
(* clause                                                                 *)
PhrasesOfSentence_TieIsProblem(sentence) ==
  LET lowerSentence == toLowerCase(sentence)
      problemScore == Score(lowerSentence, problemIndicators)
      solutionScore == Score(lowerSentence, solutionIndicators)
  IN IF problemScore >= solutionScore /\ problemScore > 0
     THEN Colored(breakIntoChunks(trim(sentence), MinWords, MaxWords), colors.problem)
     ELSE IF solutionScore > 0
     THEN Colored(breakIntoChunks(trim(sentence), MinWords, MaxWords), colors.differentiator)
     ELSE <<>>

(* the body of sentences.forEach in identifyGeneratedPhrases              *)
PhrasesOfSentence(sentence) ==
  LET lowerSentence == toLowerCase(sentence)
      problemScore == Score(lowerSentence, problemIndicators)
      solutionScore == Score(lowerSentence, solutionIndicators)
  IN IF problemScore > solutionScore /\ problemScore > 0
     THEN Colored(breakIntoChunks(trim(sentence), MinWords, MaxWords), colors.problem)
     ELSE IF solutionScore > 0
     THEN Colored(breakIntoChunks(trim(sentence), MinWords, MaxWords), colors.differentiator)
     ELSE <<>>

RECURSIVE PhrasesOfSentences(_)
PhrasesOfSentences(sentences) ==
  IF sentences = <<>> THEN <<>>
  ELSE PhrasesOfSentence(sentences[1]) \o PhrasesOfSentences(Tail(sentences))

identifyGeneratedPhrases(generatedText, r) ==
  LET secondaryIndex == lastIndexOf(toLowerCase(generatedText), toLowerCase(r.secondary))
      subheadlineText ==
        IF r.primary # <<>> /\ r.secondary # <<>> /\ secondaryIndex # -1
        THEN trim(SubSeq(generatedText, secondaryIndex + Len(r.secondary) + 1,
                         Len(generatedText)))
        ELSE generatedText
  IN PhrasesOfSentences(NonBlank(SplitSentences(subheadlineText, 0, 0)))

(* .map(phrase => ({start: index, end: index + phrase.text.length}))      *)
(* .filter(p => p.start !== -1) over the phrases of one color             *)
RECURSIVE PhrasePositions(_, _, _)
PhrasePositions(phrases, color, fullText) ==
  IF phrases = <<>> THEN <<>>
  ELSE LET phrase == phrases[1]
           index == strIndexOf(toLowerCase(fullText), toLowerCase(phrase.text), 0)
       IN (IF phrase.color = color /\ index # -1
           THEN << [ start |-> index, end |-> index + Len(phrase.text) ] >>
           ELSE <<>>)
          \o PhrasePositions(Tail(phrases), color, fullText)

(* .sort((a, b) => a.start - b.start): stable                             *)
RECURSIVE InsertByStart(_, _)
InsertByStart(sorted, p) ==
  IF sorted = <<>> THEN << p >>
  ELSE IF sorted[Len(sorted)].start <= p.start THEN Append(sorted, p)
       ELSE Append(InsertByStart(SubSeq(sorted, 1, Len(sorted) - 1), p),
                   sorted[Len(sorted)])

RECURSIVE SortByStart(_)
SortByStart(ps) ==
  IF ps = <<>> THEN <<>>
  ELSE InsertByStart(SortByStart(SubSeq(ps, 1, Len(ps) - 1)), ps[Len(ps)])

(* the merge loop of mergeOverlappingPhrases and the final push           *)
RECURSIVE MergeLoop(_, _, _)
MergeLoop(positions, i, currentMerged) ==
  IF i > Len(positions) THEN << currentMerged >>
  ELSE IF positions[i].start <= currentMerged.end + MergeGap
       THEN MergeLoop(positions, i + 1,
              [currentMerged EXCEPT !.end =
                 IF positions[i].end > @ THEN positions[i].end ELSE @])
       ELSE << currentMerged >> \o MergeLoop(positions, i + 1, positions[i])

(* every phrase position is kept as a span of its own                     *)
MergedOfColor_Unmerged(phrases, color, fullText) ==
  LET merged == SortByStart(PhrasePositions(phrases, color, fullText))
  IN [k \in 1..Len(merged) |->
        [ start |-> merged[k].start, end |-> merged[k].end, color |-> color ]]

(* the merged spans of one color                                          *)
MergedOfColor(phrases, color, fullText) ==
  LET phrasePositions == SortByStart(PhrasePositions(phrases, color, fullText))
      merged == IF phrasePositions = <<>> THEN <<>>
                ELSE MergeLoop(phrasePositions, 2, phrasePositions[1])
  IN [k \in 1..Len(merged) |->
        [ start |-> merged[k].start, end |-> merged[k].end, color |-> color ]]

RECURSIVE MergedOfColors(_, _, _)
MergedOfColors(phrases, colorList, fullText) ==
  IF colorList = <<>> THEN <<>>
  ELSE MergedOfColor(phrases, colorList[1], fullText)
         \o MergedOfColors(phrases, Tail(colorList), fullText)

(* the spans that mergeOverlappingPhrases produces, color group by color  *)
(* group in the order in which the colors first occur                     *)
MergedSpans(phrases, fullText) ==
  MergedOfColors(phrases, Dedupe([k \in 1..Len(phrases) |-> phrases[k].color]),
                 fullText)

mergeOverlappingPhrases(phrases, fullText) ==
  LET merged == MergedSpans(phrases, fullText)
  IN [k \in 1..Len(merged) |->
        [ text |-> substring(fullText, merged[k].start, merged[k].end),
          color |-> merged[k].color ]]

(* coreMessaging.icp.forEach(...)                                         *)
RECURSIVE IcpHighlights(_)
IcpHighlights(icp) ==
  IF icp = <<>> THEN <<>>
  ELSE (IF icp[1] # <<>> /\ trim(icp[1]) # <<>>
        THEN << [ text |-> trim(icp[1]), color |-> colors.secondaryAnchor ] >>
        ELSE <<>>)
       \o IcpHighlights(Tail(icp))

(* highlights.filter(highlight => highlight.text && highlight.text.trim()) *)
RECURSIVE FilterHighlights(_)
FilterHighlights(hs) ==
  IF hs = <<>> THEN <<>>
  ELSE (IF hs[1].text # <<>> /\ trim(hs[1].text) # <<>> THEN << hs[1] >> ELSE <<>>)
       \o FilterHighlights(Tail(hs))

(* every anchor and ICP segment is pushed as it is and nothing is         *)
(* filtered                                                               *)
getHighlights_Unguarded(r, generatedText) ==
  << [ text |-> r.primary, color |-> colors.primaryAnchor ],
     [ text |-> r.secondary, color |-> colors.secondaryAnchor ] >>
  \o [k \in 1..Len(r.icp) |-> [ text |-> trim(r.icp[k]), color |-> colors.secondaryAnchor ]]
  \o (IF generatedText # <<>>
      THEN mergeOverlappingPhrases(identifyGeneratedPhrases(generatedText, r),
                                   generatedText)
      ELSE <<>>)

getHighlights(r, generatedText) ==
  FilterHighlights(
    (IF r.primary # <<>>
     THEN << [ text |-> r.primary, color |-> colors.primaryAnchor ] >> ELSE <<>>)
    \o (IF r.secondary # <<>>
        THEN << [ text |-> r.secondary, color |-> colors.secondaryAnchor ] >> ELSE <<>>)
    \o IcpHighlights(r.icp)
    \o (IF generatedText # <<>>
        THEN mergeOverlappingPhrases(identifyGeneratedPhrases(generatedText, r),
                                     generatedText)
        ELSE <<>>))

(* highlightMap: entries [pos, color, length]                             *)
MapHas(map, i) == \E entry \in map : entry.pos = i
MapGet(map, i) == CHOOSE entry \in map : entry.pos = i
MapPut(map, i, color, length) ==
  { entry \in map : entry.pos # i } \cup { [ pos |-> i, color |-> color, length |-> length ] }

(* the while loop that looks for a place for one highlight                *)
RECURSIVE FindPlace(_, _, _, _, _)
FindPlace(map, sourceText, searchText, highlight, searchIndex) ==
  IF searchIndex >= Len(sourceText) THEN map
  ELSE LET foundIndex == strIndexOf(sourceText, searchText, searchIndex)
           canHighlight ==
             \A i \in foundIndex..(foundIndex + Len(highlight.text) - 1) : ~MapHas(map, i)
       IN IF foundIndex = -1 THEN map
          ELSE IF canHighlight
               THEN MapPut(map, foundIndex, highlight.color, Len(highlight.text))
               ELSE FindPlace(map, sourceText, searchText, highlight, foundIndex + 1)

(* the body of highlights.forEach in createHighlightedText                *)
Register(map, text, highlight) ==
  FindPlace(map, toLowerCase(text), toLowerCase(highlight.text), highlight, 0)

(* the position of the next highlight after i, or the end of the text     *)
NextHighlight(map, text, i) ==
  LET later == { entry.pos : entry \in { en \in map : en.pos > i /\ en.pos < Len(text) } }
  IN IF later = {} THEN Len(text) ELSE CHOOSE p \in later : \A q \in later : p <= q

(* the plain run stops one character before the next highlight            *)
WalkFrom_ShortPlain(map, text, i) ==
  IF MapHas(map, i)
  THEN [ runs |-> << [ highlighted |-> TRUE, color |-> MapGet(map, i).color,
                       text |-> substring(text, i, i + MapGet(map, i).length) ] >>,
         i |-> i + MapGet(map, i).length ]
  ELSE [ runs |-> IF substring(text, i, NextHighlight(map, text, i) - 1) # <<>>
                  THEN << [ highlighted |-> FALSE, color |-> "",
                            text |-> substring(text, i, NextHighlight(map, text, i) - 1) ] >>
                  ELSE <<>>,
         i |-> NextHighlight(map, text, i) ]

(* one turn of the while loop that walks through the text: the runs it    *)
(* pushes and the position it moves to                                    *)
WalkFrom(map, text, i) ==
  IF MapHas(map, i)
  THEN [ runs |-> << [ highlighted |-> TRUE, color |-> MapGet(map, i).color,
                       text |-> substring(text, i, i + MapGet(map, i).length) ] >>,
         i |-> i + MapGet(map, i).length ]
  ELSE [ runs |-> IF substring(text, i, NextHighlight(map, text, i)) # <<>>
                  THEN << [ highlighted |-> FALSE, color |-> "",
                            text |-> substring(text, i, NextHighlight(map, text, i)) ] >>
                  ELSE <<>>,
         i |-> NextHighlight(map, text, i) ]

(* ------------------ the canvas renders one text ----------------------- *)
(* generatedContent.headline and .subheadline on the canvas               *)
Headlines == { <<"C", "R", "M", " ", "f", "o", "r", " ", "O", "p", "s">> }

Subheadlines ==
  { <<"n", "o", " ", "o", "n", "e", " ", "c", "a", "n", " ", "w", "i", "n", ".", " ", "n", "o", " ", "o", "n", "e", " ", "c", "a", "n", " ", "f", "i", "x", " ", "i", "t">>,
    <<"n", "o", " ", "o", "n", "e", " ", "c", "a", "n", " ", "w", "i", "n", "?", "!", " ", "n", "o", " ", "o", "n", "e", " ", "c", "a", "n", " ", "f", "i", "x", " ", "i", "t">>,
    <<"n", "o", " ", "o", "n", "e", " ", "c", "a", "n", " ", "w", "i", "n", ".", " ", "w", "e", " ", "c", "a", "n", " ", "f", "i", "x", " ", "i", "t", " ", "f", "a", "s", "t">> }

(* the anchors and ICP segments of coreMessaging                          *)
HighlightRequests ==
  { [ primary |-> p, secondary |-> s, icp |-> i ] :
      p \in { <<"C", "R", "M">>, <<"C", "R", "M", " ", "f", "o", "r">>, <<>>, <<" ">> },
      s \in { <<"O", "p", "s">>, <<"f", "o", "r", " ", "O", "p", "s">>, <<>>, <<"o", "n", "e", " ", "c", "a", "n">> },
      i \in { << <<"O", "p", "s">> >>,
              << <<>>, <<" ">>, <<" ", "w", "i", "n", " ">> >> } }

HighlightInputs ==
  { [ headline |-> h, subheadline |-> s, req |-> r, which |-> w ] :
      h \in Headlines, s \in Subheadlines, r \in HighlightRequests,
      w \in {"headline", "subheadline"} }

(* the text handed to getHighlights and the text that is rendered         *)
GeneratedText(in) == in.headline \o <<" ">> \o in.subheadline
RenderedText(in) == IF in.which = "headline" THEN in.headline ELSE in.subheadline

HighlightStart ==
  [ stage |-> "start", highlights |-> <<>>, merged |-> <<>>, next |-> 1,
    map |-> {}, i |-> 0, runs |-> <<>> ]

InitHighlight ==
  /\ InitPipeline /\ IdleKey /\ IdleParse
  /\ IdleClassify /\ IdleServer /\ IdleStorage
  /\ hlIn \in { << in >> : in \in HighlightInputs }
  /\ hl = << HighlightStart >>

(* getHighlights(`${headline} ${subheadline}`), evaluated as the argument *)
(* of createHighlightedText; merged is its local mergedPhrases with the   *)
(* positions the merge worked on                                          *)
GetHighlights ==
  /\ hlIn # NotComputed
  /\ hl[1].stage = "start"
  /\ LET generatedText == GeneratedText(hlIn[1])
         highlights == getHighlights(hlIn[1].req, generatedText)
     IN hl' = [hl EXCEPT
                 ![1].highlights = highlights,
                 ![1].merged = MergedSpans(identifyGeneratedPhrases(generatedText, hlIn[1].req),
                                        generatedText),
                 ![1].stage = IF RenderedText(hlIn[1]) = <<>> THEN "done"
                           ELSE IF highlights = <<>> THEN "walk" ELSE "register"]
  /\ UNCHANGED << pipelineVars, keyVars, parseVars, hlIn,
                  classifyVars, serverVars, storageVars >>

(* createHighlightedText: one turn of highlights.forEach                  *)
RegisterHighlight ==
  /\ hlIn # NotComputed
  /\ hl[1].stage = "register"
  /\ hl' = [hl EXCEPT
              ![1].map = Register(hl[1].map, RenderedText(hlIn[1]), hl[1].highlights[hl[1].next]),
              ![1].next = @ + 1,
              ![1].stage = IF hl[1].next = Len(hl[1].highlights) THEN "walk" ELSE "register"]
  /\ UNCHANGED << pipelineVars, keyVars, parseVars, hlIn,
                  classifyVars, serverVars, storageVars >>

(* createHighlightedText: one turn of the walk through the text           *)
WalkStep ==
  /\ hlIn # NotComputed
  /\ hl[1].stage = "walk"
  /\ LET step == WalkFrom(hl[1].map, RenderedText(hlIn[1]), hl[1].i)
     IN hl' = [hl EXCEPT
                 ![1].runs = @ \o step.runs,
                 ![1].i = step.i,
                 ![1].stage = IF step.i >= Len(RenderedText(hlIn[1])) THEN "done" ELSE "walk"]
  /\ UNCHANGED << pipelineVars, keyVars, parseVars, hlIn,
                  classifyVars, serverVars, storageVars >>

NextHighlightStep == GetHighlights \/ RegisterHighlight \/ WalkStep

SpecHighlight == InitHighlight /\ [][NextHighlightStep]_vars

(* --------------------- parseResponse on its own ----------------------- *)
(* Responses of the generation service, word by word: an optional         *)
(* leading "Solve", a first sentence, its end, and what follows.          *)
(* lines of a response: prefix lines with and without text after the     *)
(* prefix, an indented prefix, plain lines with and without a colon, and *)
(* a blank line                                                           *)
ParseLines ==
  { << HeadlinePrefix >>,
    << HeadlinePrefix, " ", "Crm" >>,
    << SubheadlinePrefix, " " >>,
    << OpportunityPrefix >>,
    << OpportunityPrefix, " ", "growing" >>,
    << "teams", " ", "move", ".", " ", "fast", "." >>,
    << "market" >>,
    << "note", ":", " ", "x" >>,
    << " ", HeadlinePrefix, " ", "Crm" >>,
    << >> }

(* responses of one to three such lines                                   *)
LineTexts ==
  ParseLines
  \cup { a \o <<"\n">> \o b : a, b \in ParseLines }
  \cup { a \o <<"\n">> \o b \o <<"\n">> \o c : a, b, c \in ParseLines }

ParseInputs ==
  LineTexts \cup
  { lead \o first \o stop \o rest :
      lead \in { <<>>, <<"Solve", " ">>, <<" ">> },
      first \in { <<"crm", " ", "helps">>, <<"Crm">>, <<>> },
      stop \in { <<>>, <<".">>, <<"!", " ">>, <<"?", "!", " ">>, <<".", "\n">> },
      rest \in { <<>>, <<"teams", " ", "move">>, <<"teams", " ", "move", ".">>,
                 <<"teams", " ", "move", "?", " ", "fast", ".">>,
                 <<" ">> } }
  \cup { Responses[k] : k \in RespIds }

InitParse ==
  /\ InitPipeline /\ IdleKey /\ IdleHighlight
  /\ IdleClassify /\ IdleServer /\ IdleStorage
  /\ parseIn \in { << text >> : text \in ParseInputs }
  /\ parseOut = NotComputed

(* parseResponse(data.content, coreMessaging)                             *)
ParseResponse ==
  /\ parseIn # NotComputed
  /\ parseOut = NotComputed
  /\ parseOut' = << parseResponse(parseIn[1]) >>
  /\ UNCHANGED << pipelineVars, keyVars, hlVars, parseIn,
                  classifyVars, serverVars, storageVars >>

NextParse == ParseResponse

SpecParse == InitParse /\ [][NextParse]_vars


(* ============================== claims ================================ *)
ContentFields == {"headline", "subheadline", "thesis", "risks", "opportunity"}

IsGeneratedContent(x) ==
  /\ DOMAIN x = ContentFields
  /\ x.headline # <<>>
  /\ x.subheadline # <<>>
  /\ x.opportunity # <<>>

Returned(c) == call[c].pc = "done"

EmptyResponse(c) ==
  hist[c].genOutcome = "ok" /\ Responses[hist[c].response] = <<>>

(* what parseResponse yields when nothing could be parsed                 *)
DefaultContent ==
  [ headline |-> DefaultHeadline, subheadline |-> DefaultSubheadline,
    thesis |-> <<>>, risks |-> <<>>, opportunity |-> DefaultOpportunity ]

(* C1: generatePositioning never rejects: whatever fails in the cache    *)
(* store, the embedding service, the vector store or the generation      *)
(* service, a call that is under way can always take its next step, and   *)
(* a call that has ended has resolved with a GeneratedContent value.      *)
C1_AlwaysReturnsContent ==
  \A c \in Calls :
     /\ call[c].outcome # "rejected"
     /\ call[c].pc \notin {"idle", "done"} => ENABLED CallStep(c)
     /\ Returned(c) => call[c].outcome = "resolved" /\ IsGeneratedContent(call[c].result)

(* a call in which the cache read, the embedding cache read, the          *)
(* embedding service, the vector store and the generation service all     *)
(* failed has returned content                                            *)
C1_Witness ==
  \E c \in Calls :
     /\ Returned(c)
     /\ hist[c].allFailed
     /\ hist[c].genOutcome = "failed"
     /\ call[c].outcome = "resolved"
     /\ IsGeneratedContent(call[c].result)

(* C2: once a call has returned a generated (non-fallback) result, no    *)
(* later call with the identical request and settings made within the    *)
(* TTL invokes the generation service.                                    *)
C2_IdempotentWithinTTL ==
  \A c \in Calls : hist[c].priorSuccess => hist[c].genCalls = 0

(* C3: when the generation service call fails, generatePositioning       *)
(* returns exactly createFallbackContent(request), cacheResult is not    *)
(* called and no step of the call has changed generation_cache.          *)
C3_FailureFallbackNotCached ==
  \A c \in Calls :
     hist[c].genOutcome = "failed" =>
        /\ Returned(c)
        /\ call[c].outcome = "resolved"
        /\ call[c].result = createFallbackContent(Req(c))
        /\ hist[c].cacheResultCalls = 0
        /\ ~hist[c].cacheChanged

(* a call whose generation failed has returned while the table holds an   *)
(* (expired) entry for its key                                            *)
C3_Witness ==
  \E c \in Calls :
     /\ Returned(c)
     /\ hist[c].genOutcome = "failed"
     /\ RowsOf(genCache, Key(c)) # {}

(* C4 as claimed: a lookup is a hit iff an entry with the key is stored  *)
(* and now <= expires_at.                                                 *)
C4_HitIffNotAfterExpiry ==
  \A c \in Calls :
     hist[c].lookup.done =>
        (hist[c].lookup.hit <=>
           (hist[c].lookup.stored /\ hist[c].lookup.age \in {"before", "at"}))

(* C4 amended: a lookup is a hit iff an entry with the key is stored,    *)
(* now < expires_at and the select itself is answered; on the expiry     *)
(* instant and after it the entry is not returned although it is stored. *)
C4_HitIffBeforeExpiry ==
  \A c \in Calls :
     hist[c].lookup.done =>
        /\ hist[c].lookup.hit <=>
              (hist[c].lookup.stored /\ hist[c].lookup.age = "before"
                 /\ ~hist[c].lookup.fault)
        /\ hist[c].lookup.hit => call[c].pc \in {"hit", "done"}
        /\ ~hist[c].lookup.hit => call[c].pc = "embed"

(* a lookup made on the expiry instant of the stored entry missed         *)
C4_Witness ==
  \E c \in Calls :
     /\ hist[c].lookup.done
     /\ hist[c].lookup.stored
     /\ hist[c].lookup.age = "at"
     /\ ~hist[c].lookup.fault
     /\ ~hist[c].lookup.hit

(* C5: after cacheResult(k, c), a read of k before the expiry that the   *)
(* write sets (day of the write + TTL) returns exactly c.                 *)
C5_RoundTrip ==
  \A c \in Calls :
     (Returned(c) /\ hist[c].cacheResultCalls = 1 /\ ~hist[c].writeFault
        /\ now < lastWrite.at + TTL) =>
        \E row \in genCache :
           /\ SelectCached(genCache, Key(c), now, FALSE) = {row}
           /\ row.content = call[c].result

(* C6: cacheResult on a key that already has an entry replaces the       *)
(* payload, resets expires_at to the day of the write + TTL and leaves   *)
(* exactly one entry for the key.                                         *)
C6_UpsertOverwrites ==
  [][ \A c \in Calls :
        (call[c].pc = "cache" /\ call'[c].pc = "done" /\ ~hist'[c].writeFault
           /\ RowsOf(genCache, Key(c)) # {}) =>
           \E row \in genCache' :
              /\ RowsOf(genCache', Key(c)) = {row}
              /\ row.content = call[c].result
              /\ row.expires_at = now + TTL
    ]_vars

(* C7: on every path the returned thesis and risks are those of the      *)
(* request passed to the call.                                            *)
C7_ThesisAndRisksPassThrough ==
  \A c \in Calls :
     Returned(c) =>
        /\ call[c].result.thesis = Req(c).thesis
        /\ call[c].result.risks = Req(c).risks

(* C8 as claimed: an empty response is handled as a failure: the result  *)
(* is the template fallback and nothing is written to the cache.         *)
C8_EmptyResponseIsFailure ==
  \A c \in Calls :
     EmptyResponse(c) =>
        /\ Returned(c)
        /\ call[c].result = createFallbackContent(Req(c))
        /\ hist[c].cacheResultCalls = 0
        /\ ~hist[c].cacheChanged

(* C8 amended: an empty response is parsed like any other: the result is *)
(* the default headline, subheadline and opportunity text, and it is     *)
(* handed to cacheResult before it is returned.                           *)
C8_EmptyResponseGivesDefaults ==
  \A c \in Calls :
     EmptyResponse(c) =>
        /\ call[c].result = DefaultContent
        /\ call[c].result # createFallbackContent(Req(c))
        /\ \/ call[c].pc = "cache"
           \/ Returned(c) /\ hist[c].cacheResultCalls = 1

(* the default content of an empty response has been stored in the cache  *)
C8_Witness ==
  \E c \in Calls :
     /\ Returned(c)
     /\ EmptyResponse(c)
     /\ hist[c].cacheChanged
     /\ \E row \in genCache : row.content = DefaultContent

(* C9 as claimed: when the vector store answers with zero rows,          *)
(* findSimilarExamples returns the fallback examples.                     *)
C9_ZeroRowsGiveFallback ==
  \A c \in Calls :
     (call[c].pc = "generate" /\ hist[c].zeroRows) =>
        call[c].examples = getFallbackExamples

(* C9 amended: when the vector store answers with zero rows,             *)
(* findSimilarExamples returns the empty list, and the call still ends   *)
(* by returning a GeneratedContent.                                       *)
C9_ZeroRowsGiveEmptyList ==
  \A c \in Calls :
     hist[c].zeroRows =>
        /\ call[c].pc \in {"generate", "cache", "done"}
        /\ call[c].pc = "generate" => call[c].examples = <<>>
        /\ call[c].pc # "done" => ENABLED CallStep(c)
        /\ Returned(c) => call[c].outcome = "resolved"
                            /\ IsGeneratedContent(call[c].result)

(* a call whose vector search answered zero rows has returned content     *)
C9_Witness ==
  \E c \in Calls :
     /\ Returned(c)
     /\ hist[c].zeroRows
     /\ IsGeneratedContent(call[c].result)

(* C10 as claimed: if the embedding service or the vector store errors,  *)
(* findSimilarExamples returns the fallback list, and neither service is *)
(* called twice.                                                          *)
C10_RetrievalErrorGivesFallback ==
  \A c \in Calls :
     /\ hist[c].retrieval.embCalls <= 1
     /\ hist[c].retrieval.vecCalls <= 1
     /\ (call[c].pc = "generate"
           /\ (hist[c].retrieval.embFailed \/ hist[c].retrieval.vecOutcome = "error")) =>
           call[c].examples = getFallbackExamples

(* C10 amended: if the vector store query errors, the result is the      *)
(* fallback list; if the embedding service errors, the zero vector takes *)
(* the place of the embedding, the vector store is still queried once    *)
(* and the result is what findSimilarExamples makes of its answer;       *)
(* neither service is called twice.                                       *)
C10_RetrievalErrorPolicy ==
  \A c \in Calls :
     /\ hist[c].retrieval.embCalls <= 1
     /\ hist[c].retrieval.vecCalls <= 1
     /\ hist[c].retrieval.vecOutcome = "error" =>
           call[c].pc = "generate" /\ call[c].examples = getFallbackExamples
     /\ hist[c].retrieval.embFailed =>
           /\ call[c].pc \in {"search", "generate"}
           /\ call[c].pc = "search" =>
                 call[c].embedding = ZeroVector /\ hist[c].retrieval.vecCalls = 0
           /\ call[c].pc = "generate" =>
                 /\ hist[c].retrieval.vecCalls = 1
                 /\ hist[c].retrieval.vecOutcome = "rows" =>
                       call[c].examples \in VectorAnswers
                 /\ hist[c].retrieval.vecOutcome \in {"error", "null"} =>
                       call[c].examples = getFallbackExamples

(* after an embedding error the vector store answered rows, and they are  *)
(* the result                                                             *)
C10_Witness ==
  \E c \in Calls :
     /\ call[c].pc = "generate"
     /\ hist[c].retrieval.embFailed
     /\ hist[c].retrieval.vecOutcome = "rows"
     /\ call[c].examples = <<"Acme">>

(* the five values the key is claimed to depend on                        *)
KeyFields(r) ==
  << trim(toLowerCase(r.primary)),
     toLowerCase(SubSeq(r.problem, 1, IF Len(r.problem) < 50 THEN Len(r.problem) ELSE 50)),
     toLowerCase(SubSeq(r.differentiator, 1,
                        IF Len(r.differentiator) < 50 THEN Len(r.differentiator) ELSE 50)),
     RoundTenths(r.temperature),
     RoundTenths(r.top_p) >>

(* C11: generateCacheKey depends only on the lower-cased trimmed primary *)
(* anchor content, the lower-cased first 50 characters of problem and of *)
(* differentiator, and the rounded temperature and top_p: two requests   *)
(* that agree on these five values get equal keys, whatever the rest of  *)
(* the request is.                                                        *)
C11_KeyDeterminism ==
  keyOut # NotComputed =>
     (KeyFields(keyIn[1]) = KeyFields(keyIn[2]) => keyOut[1] = keyOut[2])

(* two requests that differ in the case and padding of the primary       *)
(* anchor, in the secondary anchor, the anchor types, the ICP list,      *)
(* thesis, risks, the temperature within one bucket and the text of      *)
(* problem and differentiator beyond character 50 got the same key       *)
C11_Witness ==
  /\ keyOut # NotComputed
  /\ keyIn[1].primary # keyIn[2].primary
  /\ keyIn[1].primaryType # keyIn[2].primaryType
  /\ keyIn[1].secondary # keyIn[2].secondary
  /\ keyIn[1].icp # keyIn[2].icp
  /\ keyIn[1].thesis # keyIn[2].thesis
  /\ keyIn[1].risks # keyIn[2].risks
  /\ Len(keyIn[1].problem) > 50
  /\ keyIn[1].problem # keyIn[2].problem
  /\ keyIn[1].differentiator # keyIn[2].differentiator
  /\ keyIn[1].temperature # keyIn[2].temperature
  /\ keyOut[1] = keyOut[2]

(* the tenth nearest to a value given in hundredths, halves going up      *)
NearestTenth(h) == CHOOSE b \in 0..20 : 10 * b - 5 <= h /\ h < 10 * b + 5

(* C12: temperature and top_p enter the key bucketed to the nearest 0.1: *)
(* two requests equal in the other key fields get the same key iff both  *)
(* buckets are equal; 0.31 and 0.34 share a key, 0.34 and 0.36 do not.   *)
C12_RoundedSettings ==
  keyOut # NotComputed =>
     LET r1 == keyIn[1]
         r2 == keyIn[2]
         sameBuckets ==
           /\ NearestTenth(r1.temperature) = NearestTenth(r2.temperature)
           /\ NearestTenth(r1.top_p) = NearestTenth(r2.top_p)
     IN (/\ KeyFields(r1)[1] = KeyFields(r2)[1]
         /\ KeyFields(r1)[2] = KeyFields(r2)[2]
         /\ KeyFields(r1)[3] = KeyFields(r2)[3]) =>
           /\ (keyOut[1] = keyOut[2]) <=> sameBuckets
           /\ ({r1.temperature, r2.temperature} = {31, 34} /\ r1.top_p = r2.top_p)
                 => keyOut[1] = keyOut[2]
           /\ {r1.temperature, r2.temperature} = {34, 36} => keyOut[1] # keyOut[2]

(* keys were computed for two requests that differ only in temperature,  *)
(* 0.34 against 0.36, and the keys differ                                *)
C12_Witness ==
  /\ keyOut # NotComputed
  /\ keyIn[1].temperature = 34
  /\ keyIn[2] = [keyIn[1] EXCEPT !.temperature = 36]
  /\ keyOut[1] # keyOut[2]

C14_LastWriterWins ==
  [][ \A c, d \in Calls :
        (/\ c # d /\ Key(c) = Key(d)
         /\ call[d].pc = "done" /\ hist[d].cacheResultCalls = 1
         /\ call[c].pc = "cache" /\ call'[c].pc = "done") =>
           /\ hist[c].genCalls = 1 /\ hist[d].genCalls = 1
           /\ \E row \in genCache' :
                 /\ SelectCached(genCache', Key(c), now', FALSE) = {row}
                 /\ row.content = call[c].result
    ]_vars

(* C15: hit_count of an entry never decreases, every hit of              *)
(* getCachedResult adds one to it, and the hit returns the stored        *)
(* content whether or not the increment went through.                     *)
C15_HitCountIncrements ==
  [][ /\ \A row \in genCache : \A row2 \in genCache' :
            row2.cache_key = row.cache_key => row2.hit_count >= row.hit_count
      /\ \A c \in Calls :
            (call[c].pc = "hit" /\ call'[c].pc = "done") =>
               /\ genCache' = UpdateHitCount(genCache, Key(c))
               /\ call'[c].outcome = "resolved"
               /\ call'[c].result = call[c].result
               /\ IsGeneratedContent(call'[c].result)
    ]_vars

(* the texts of the runs, one after the other                             *)
RECURSIVE ConcatRuns(_)
ConcatRuns(runs) ==
  IF runs = <<>> THEN <<>> ELSE runs[1].text \o ConcatRuns(Tail(runs))

(* C16: the runs that createHighlightedText emits, highlighted and       *)
(* plain, concatenated in the order of emission, are the text up to the  *)
(* position the walk has reached, and the whole text when the walk has   *)
(* ended: no character is dropped, duplicated or reordered.               *)
C16_FullCoverage ==
  hlIn # NotComputed =>
     LET text == RenderedText(hlIn[1])
     IN /\ ConcatRuns(hl[1].runs) = SubSeq(text, 1, hl[1].i)
        /\ hl[1].stage = "done" =>
              hl[1].i = Len(text) /\ ConcatRuns(hl[1].runs) = text

(* a walk has ended that emitted two highlighted runs and a plain run,   *)
(* over a map in which a registered highlight was passed over            *)
C16_Witness ==
  /\ hlIn # NotComputed
  /\ hl[1].stage = "done"
  /\ \E j, k, l \in 1..Len(hl[1].runs) :
        /\ j # k
        /\ hl[1].runs[j].highlighted /\ hl[1].runs[k].highlighted
        /\ ~hl[1].runs[l].highlighted
  /\ Cardinality(hl[1].map)
        > Cardinality({ k \in 1..Len(hl[1].runs) : hl[1].runs[k].highlighted })

(* C17: the spans registered in highlightMap for a text are pairwise     *)
(* non-overlapping character ranges: a phrase whose occurrence is        *)
(* covered by an earlier-registered span is not registered there.        *)
C17_SpansDisjoint ==
  hlIn # NotComputed =>
     \A e1, e2 \in hl[1].map :
        e1 # e2 =>
           \/ e1.pos + e1.length <= e2.pos
           \/ e2.pos + e2.length <= e1.pos

(* two spans are close: they overlap or lie at most 2 characters apart   *)
Close(p, q) == p.start <= q.end + 2 /\ q.start <= p.end + 2

(* C18: in the output of mergeOverlappingPhrases two distinct spans of   *)
(* one color lie more than 2 characters apart, and phrases of one color  *)
(* that overlap or lie at most 2 characters apart are inside one merged  *)
(* span.                                                                  *)
C18_MergedSpansApart ==
  (hlIn # NotComputed /\ hl[1].stage # "start") =>
     LET text == GeneratedText(hlIn[1])
         phrases == identifyGeneratedPhrases(text, hlIn[1].req)
         merged == hl[1].merged
     IN /\ \A k, l \in 1..Len(merged) :
              (k # l /\ merged[k].color = merged[l].color) =>
                 \/ merged[l].start - merged[k].end > 2
                 \/ merged[k].start - merged[l].end > 2
        /\ \A c \in { phrases[k].color : k \in 1..Len(phrases) } :
              LET found == PhrasePositions(phrases, c, text)
              IN \A a, b \in 1..Len(found) :
                    Close(found[a], found[b]) =>
                       \E k \in 1..Len(merged) :
                          /\ merged[k].color = c
                          /\ merged[k].start <= found[a].start
                          /\ merged[k].start <= found[b].start
                          /\ found[a].end <= merged[k].end
                          /\ found[b].end <= merged[k].end

(* the merge left two spans of one color that lie exactly 3 characters   *)
(* apart, one of them merged from several overlapping phrases            *)
C18_Witness ==
  /\ hlIn # NotComputed
  /\ hl[1].stage # "start"
  /\ \E k, l \in 1..Len(hl[1].merged) :
        /\ hl[1].merged[k].color = hl[1].merged[l].color
        /\ hl[1].merged[l].start - hl[1].merged[k].end = 3
  /\ Len(identifyGeneratedPhrases(GeneratedText(hlIn[1]), hlIn[1].req))
        > Len(hl[1].merged)

(* C19: every highlight that getHighlights returns and every highlighted *)
(* run that createHighlightedText emits covers at least one character,   *)
(* also when anchors or ICP segments are empty or whitespace only.       *)
C19_NoZeroLengthSpan ==
  hlIn # NotComputed =>
     /\ \A k \in 1..Len(hl[1].highlights) : Len(hl[1].highlights[k].text) >= 1
     /\ \A k \in 1..Len(hl[1].runs) :
           hl[1].runs[k].highlighted => Len(hl[1].runs[k].text) >= 1

(* a text was rendered for a request with a whitespace-only primary      *)
(* anchor, an empty secondary anchor and empty and whitespace-only ICP   *)
(* segments, and a highlighted run was emitted                            *)
C19_Witness ==
  /\ hlIn # NotComputed
  /\ hl[1].stage = "done"
  /\ hlIn[1].req.primary = <<" ">>
  /\ hlIn[1].req.secondary = <<>>
  /\ \E k \in 1..Len(hlIn[1].req.icp) : hlIn[1].req.icp[k] = <<>>
  /\ \E k \in 1..Len(hlIn[1].req.icp) : hlIn[1].req.icp[k] = <<" ">>
  /\ \E k \in 1..Len(hl[1].runs) : hl[1].runs[k].highlighted

(* no line of the response starts with one of the three prefixes         *)
NoPrefixLine(text) ==
  \A line \in { SplitBy(text, {"\n"})[k] : k \in 1..Len(SplitBy(text, {"\n"})) } :
     /\ ~startsWith(line, HeadlinePrefix)
     /\ ~startsWith(line, SubheadlinePrefix)
     /\ ~startsWith(line, OpportunityPrefix)

(* the sentences of a response: a leading "Solve" stripped, split on     *)
(* . ! ?                                                                  *)
SentencesOf(text) == NonBlank(SplitBy(trim(StripSolve(text)), {".", "!", "?"}))

(* C20 as claimed: for a response without prefix lines the headline is   *)
(* the first sentence capitalized, the subheadline the remaining         *)
(* sentences joined and capitalized, the opportunity the default text,   *)
(* and headline and subheadline are non-empty.                            *)
C20_DegradedParse ==
  (parseOut # NotComputed /\ NoPrefixLine(parseIn[1])) =>
     LET sentences == SentencesOf(parseIn[1])
     IN IF sentences = <<>> THEN FALSE
        ELSE /\ parseOut[1].headline = Capitalize(trim(sentences[1]))
             /\ parseOut[1].subheadline =
                   Capitalize(trim(JoinWith(Tail(sentences), <<".", " ">>)))
             /\ parseOut[1].opportunity = DefaultOpportunity
             /\ parseOut[1].headline # <<>>
             /\ parseOut[1].subheadline # <<>>

(* C20 amended: that holds when the response has at least two            *)
(* sentences; with fewer (a single sentence, an empty or blank response) *)
(* headline and subheadline are the default texts.  The opportunity is   *)
(* the default text and headline and subheadline are non-empty either    *)
(* way.                                                                   *)
C20_DegradedParseOrDefaults ==
  (parseOut # NotComputed /\ NoPrefixLine(parseIn[1])) =>
     LET sentences == SentencesOf(parseIn[1])
     IN /\ Len(sentences) >= 2 =>
              /\ parseOut[1].headline = Capitalize(trim(sentences[1]))
              /\ parseOut[1].subheadline =
                    Capitalize(trim(JoinWith(Tail(sentences), <<".", " ">>)))
        /\ Len(sentences) < 2 =>
              /\ parseOut[1].headline = DefaultHeadline
              /\ parseOut[1].subheadline = DefaultSubheadline
        /\ parseOut[1].opportunity = DefaultOpportunity
        /\ parseOut[1].headline # <<>>
        /\ parseOut[1].subheadline # <<>>

(* a response without prefix lines that starts with "Solve" and has      *)
(* three sentences was parsed: the headline is its first sentence,       *)
(* capitalized, and not the default text                                  *)
C20_Witness ==
  /\ parseOut # NotComputed
  /\ NoPrefixLine(parseIn[1])
  /\ parseIn[1] # <<>> /\ parseIn[1][1] = "Solve"
  /\ Len(SentencesOf(parseIn[1])) = 3
  /\ parseOut[1].headline = <<"Crm", " ", "helps">>
  /\ parseOut[1].subheadline # DefaultSubheadline

(* ================== classification of one clause ====================== *)
(* words that clauses are made of: indicators of both lists, in lower    *)
(* and upper case, words that contain an indicator ("know"), and words   *)
(* that contain none                                                      *)
ClauseWords ==
  { <<"n", "o">>,
    <<"S", "l", "o", "w">>,
    <<"m", "a", "n", "u", "a", "l">>,
    <<"F", "a", "s", "t">>,
    <<"h", "e", "l", "p", "s">>,
    <<"w", "e">>,
    <<"o", "u", "r", " ", "p", "l", "a", "t", "f", "o", "r", "m">>,
    <<"k", "n", "o", "w">>,
    <<"t", "e", "a", "m", "s">>,
    <<"s", "h", "i", "p", " ", "i", "t">> }

(* the clauses that sentences.forEach meets: one to three words           *)
ClauseInputs ==
  ClauseWords
  \cup { a \o <<" ">> \o b : a, b \in ClauseWords }
  \cup { a \o <<" ">> \o b \o <<" ">> \o c : a, b, c \in ClauseWords }

InitClassify ==
  /\ InitPipeline /\ IdleKey /\ IdleHighlight /\ IdleParse
  /\ IdleServer /\ IdleStorage
  /\ clauseIn \in { << clause >> : clause \in ClauseInputs }
  /\ clauseOut = NotComputed

(* one turn of sentences.forEach: the phrases pushed for the clause       *)
ClassifyClause ==
  /\ clauseIn # NotComputed
  /\ clauseOut = NotComputed
  /\ clauseOut' = << PhrasesOfSentence(clauseIn[1]) >>
  /\ UNCHANGED << pipelineVars, keyVars, hlVars, parseVars, clauseIn,
                  serverVars, storageVars >>

NextClassify == ClassifyClause

SpecClassify == InitClassify /\ [][NextClassify]_vars

(* the colors of the phrases pushed for a clause                          *)
TagsOf(phrases) == { phrases[k].color : k \in 1..Len(phrases) }

(* the solution terms without 'our platform', 'our solution' and 'we'     *)
ListedSolutionTerms ==
  SelectSeq(solutionIndicators,
            LAMBDA t : t \notin { <<"o", "u", "r", " ", "p", "l", "a", "t", "f", "o", "r", "m">>,
                                  <<"o", "u", "r", " ", "s", "o", "l", "u", "t", "i", "o", "n">>,
                                  <<"w", "e">> })

(* C21 as claimed: with p the number of problem terms and s the number   *)
(* of the eighteen listed solution terms found in the clause, the clause *)
(* is tagged problem iff p > s and p > 0, solution iff s > 0 and p <= s, *)
(* and never both.                                                        *)
C21_ClassifiedByListedTerms ==
  clauseOut # NotComputed =>
     LET lower == toLowerCase(clauseIn[1])
         p == Score(lower, problemIndicators)
         s == Score(lower, ListedSolutionTerms)
         tags == TagsOf(clauseOut[1])
     IN /\ (colors.problem \in tags) <=> (p > s /\ p > 0)
        /\ (colors.differentiator \in tags) <=> (s > 0 /\ p <= s)
        /\ ~(colors.problem \in tags /\ colors.differentiator \in tags)

(* C21 amended: the same with s counted over the solution list of the    *)
(* code, which also holds 'our platform', 'our solution' and 'we'; a     *)
(* term counts once when it occurs anywhere in the lower-cased clause.   *)
C21_ClassifiedByIndicators ==
  clauseOut # NotComputed =>
     LET lower == toLowerCase(clauseIn[1])
         p == Score(lower, problemIndicators)
         s == Score(lower, solutionIndicators)
         tags == TagsOf(clauseOut[1])
     IN /\ (colors.problem \in tags) <=> (p > s /\ p > 0)
        /\ (colors.differentiator \in tags) <=> (s > 0 /\ p <= s)
        /\ ~(colors.problem \in tags /\ colors.differentiator \in tags)

(* a clause with one problem term and 'we' as its only solution term was *)
(* classified and tagged as solution                                      *)
C21_Witness ==
  /\ clauseOut # NotComputed
  /\ Score(toLowerCase(clauseIn[1]), problemIndicators) = 1
  /\ Score(toLowerCase(clauseIn[1]), ListedSolutionTerms) = 0
  /\ Score(toLowerCase(clauseIn[1]), solutionIndicators) = 1
  /\ TagsOf(clauseOut[1]) = { colors.differentiator }

(* C22 as claimed: the fallback returned after a failed generation is    *)
(* the template filled with the request's texts as they are: headline    *)
(* "{primary} for {secondary}" with a secondary anchor and               *)
(* "Professional {primary}" without, subheadline "Solve {problem} with   *)
(* {differentiator}"; building it calls no service and writes no cache.  *)
C22_FallbackVerbatim ==
  \A c \in Calls :
     hist[c].genOutcome = "failed" =>
        LET r == Req(c)
        IN /\ call[c].result.headline =
                 IF r.secondary # <<>>
                 THEN r.primary \o <<" for ">> \o r.secondary
                 ELSE <<"Professional ">> \o r.primary
           /\ call[c].result.subheadline =
                 <<"Solve ">> \o r.problem \o <<" with ">> \o r.differentiator
           /\ hist[c].genCalls = 1
           /\ hist[c].retrieval = NoRetrieval
           /\ hist[c].cacheResultCalls = 0

(* C22 amended: the primary anchor is inserted as it is; the secondary   *)
(* anchor in the headline, the problem and the differentiator are        *)
(* inserted in lower case.                                                *)
C22_FallbackLowerCased ==
  \A c \in Calls :
     hist[c].genOutcome = "failed" =>
        LET r == Req(c)
        IN /\ call[c].result.headline =
                 IF r.secondary # <<>>
                 THEN r.primary \o <<" for ">> \o toLowerCase(r.secondary)
                 ELSE <<"Professional ">> \o r.primary
           /\ call[c].result.subheadline =
                 <<"Solve ">> \o toLowerCase(r.problem) \o <<" with ">>
                   \o toLowerCase(r.differentiator)
           /\ hist[c].genCalls = 1
           /\ hist[c].retrieval = NoRetrieval
           /\ hist[c].cacheResultCalls = 0

(* the fallback was returned for the request with primary anchor CRM,    *)
(* secondary anchor Ops, problem Slow and differentiator Fast            *)
C22_Witness ==
  \E c \in Calls :
     /\ Returned(c)
     /\ hist[c].genOutcome = "failed"
     /\ Req(c).secondary = <<"O", "p", "s">>
     /\ call[c].result.headline = <<"C", "R", "M", " for ", "o", "p", "s">>
     /\ call[c].result.subheadline =
           <<"Solve ", "s", "l", "o", "w", " with ", "f", "a", "s", "t">>

(* ============== POST /api/generate-positioning (server) =============== *)
(* server/index.ts.  temperature and top_p are JSON numbers given in     *)
(* hundredths; a field that the body does not carry is <<>>, a field     *)
(* that it carries is << value >>.  The requests are those that the rate *)
(* limiters in front of the handler let through.                          *)
DefaultTemperature == 30
DefaultTopP == 80
One == 100

SamplingValues == { <<>>, << -1 >>, << 0 >>, << 30 >>, << One >>, << One + 1 >> }

Bodies ==
  { [ prompt |-> p, temperature |-> t, top_p |-> tp ] :
      p \in { <<>>, << "prompt" >> }, t \in SamplingValues, tp \in SamplingValues }

(* const { temperature = 0.3, top_p = 0.8 } = req.body                    *)
OrElse(field, default) == IF field = <<>> THEN default ELSE field[1]

(* only values above 1 are rejected                                       *)
OutOfRange_UpperOnly(v) == v > One

(* v < 0 || v > 1                                                         *)
OutOfRange(v) == v < 0 \/ v > One

OpenAIOutcomes == {"ok", "status_429", "status_401", "other_error"}

InitServer ==
  /\ InitPipeline /\ IdleKey /\ IdleHighlight /\ IdleParse
  /\ IdleClassify /\ IdleStorage
  /\ srvReq \in { << [ body |-> b, hasKey |-> k ] >> : b \in Bodies, k \in BOOLEAN }
  /\ srvRes = << [ stage |-> "received", status |-> 0, openai |-> <<>> ] >>

(* the handler up to the call of openai.chat.completions.create           *)
Validate ==
  /\ srvReq # NotComputed
  /\ srvRes[1].stage = "received"
  /\ LET body == srvReq[1].body
         temperature == OrElse(body.temperature, DefaultTemperature)
         top_p == OrElse(body.top_p, DefaultTopP)
     IN srvRes' =
          IF body.prompt = <<>>
          THEN << [ srvRes[1] EXCEPT !.stage = "answered", !.status = 400 ] >>
          ELSE IF OutOfRange(temperature)
          THEN << [ srvRes[1] EXCEPT !.stage = "answered", !.status = 400 ] >>
          ELSE IF OutOfRange(top_p)
          THEN << [ srvRes[1] EXCEPT !.stage = "answered", !.status = 400 ] >>
          ELSE IF ~srvReq[1].hasKey
          THEN << [ srvRes[1] EXCEPT !.stage = "answered", !.status = 503 ] >>
          ELSE << [ srvRes[1] EXCEPT
                      !.stage = "calling",
                      !.openai = Append(@, [ temperature |-> temperature,
                                             top_p |-> top_p ]) ] >>
  /\ UNCHANGED << pipelineVars, keyVars, hlVars, parseVars, classifyVars,
                  srvReq, storageVars >>

(* OpenAI answers, or the call throws and the catch answers               *)
OpenAIAnswers(outcome) ==
  /\ srvReq # NotComputed
  /\ srvRes[1].stage = "calling"
  /\ srvRes' = << [ srvRes[1] EXCEPT
                      !.stage = "answered",
                      !.status = IF outcome = "ok" THEN 200
                                 ELSE IF outcome = "status_429" THEN 429
                                 ELSE IF outcome = "status_401" THEN 401
                                 ELSE 500 ] >>
  /\ UNCHANGED << pipelineVars, keyVars, hlVars, parseVars, classifyVars,
                  srvReq, storageVars >>

NextServer ==
  \/ Validate
  \/ \E outcome \in OpenAIOutcomes : OpenAIAnswers(outcome)

SpecServer == InitServer /\ [][NextServer]_vars

(* the value lies in [0,1]                                                *)
InUnitRange(v) == 0 <= v /\ v <= One

StageOf(pc) ==
  IF pc = "idle" THEN 0
  ELSE IF pc \in {"lookup", "hit"} THEN 1
  ELSE IF pc \in {"embed", "emb_db", "emb_gen", "emb_ins", "search"} THEN 2
  ELSE IF pc \in {"generate", "cache"} THEN 3
  ELSE 4

C25_CacheFailuresNonFatal ==
  [][ \A c \in Calls :
        /\ (call[c].pc = "lookup" /\ call'[c].pc # "lookup"
              /\ hist'[c].lookup.fault) =>
              /\ call'[c].pc = "embed"
              /\ ~hist'[c].lookup.hit
              /\ call'[c].outcome = "pending"
        /\ (call[c].pc = "cache" /\ call'[c].pc # "cache"
              /\ hist'[c].writeFault) =>
              /\ genCache' = genCache
              /\ call'[c].pc = "done"
              /\ call'[c].outcome = "resolved"
              /\ call'[c].result = ParsedOf[hist[c].response]
              /\ hist[c].genOutcome = "ok"
        /\ (call[c].pc = "emb_db" /\ call'[c].pc # "emb_db"
              /\ hist'[c].allFailed) =>
              call'[c].pc = "emb_gen"
        /\ (call[c].pc = "emb_ins" /\ call'[c].pc # "emb_ins"
              /\ hist'[c].retrieval.insertFault) =>
              /\ call'[c].pc = "search"
              /\ call'[c].embedding = call[c].embedding
    ]_vars

(* a call has returned generated content although its cache write        *)
(* failed, and nothing is stored under its key                            *)
C25_Witness ==
  \E c \in Calls :
     /\ Returned(c)
     /\ hist[c].writeFault
     /\ hist[c].genOutcome = "ok"
     /\ call[c].result = ParsedOf[hist[c].response]
     /\ call[c].result # createFallbackContent(Req(c))
     /\ RowsOf(genCache, Key(c)) = {}

(* ============ getEmbeddingCached under concurrent calls =============== *)
(* Two calls in flight at once against a store whose requests may fail,  *)
(* an embedding service that may answer the same text with different     *)
(* vectors, and page reloads that empty the in-process map.  Only the    *)
(* steps around getEmbeddingCached vary: every call misses the           *)
(* generation cache, and the vector store and the generation service     *)
(* fail.                                                                  *)
EmbeddingAnswers == {"e1", "e2"}

EmbeddingStep(c) ==
  \/ Lookup(c, TRUE)
  \/ EmbedMem(c)
  \/ \E fault \in BOOLEAN : EmbedDbRead(c, fault)
  \/ \E e \in EmbeddingAnswers : EmbedGenerateOk(c, e)
  \/ EmbedGenerateFail(c)
  \/ \E fault \in BOOLEAN : EmbedInsert(c, fault)
  \/ VectorSearch(c, "error", <<>>)
  \/ GenerateFail(c, "http_status")

NextEmbedding ==
  \/ \E c \in Calls, r \in ReqIds : Start(c, r)
  \/ \E c \in Calls : EmbeddingStep(c)
  \/ \E c \in Calls : Return(c)
  \/ Reload

SpecEmbedding == Init /\ [][NextEmbedding]_vars

(* C26: embedding_cache holds at most one entry per content hash, and a  *)
(* stored entry is never removed and its embedding is never changed.     *)
C26_EmbeddingCacheStable ==
  [][ /\ \A row1, row2 \in embDb' :
            row1.text_hash = row2.text_hash => row1 = row2
      /\ \A row \in embDb : row \in embDb'
    ]_vars

(* an entry is stored under a hash while a call for the same text holds  *)
(* a different vector from the embedding service and is about to insert  *)
(* it                                                                     *)
C26_Witness ==
  \E c \in Calls :
     /\ call[c].pc = "search"
     /\ hist[c].retrieval.embCalls = 1
     /\ ~hist[c].retrieval.insertFault
     /\ \E row \in embDb :
           row.text_hash = Hash(c) /\ row.embedding # call[c].embedding

(* C29: the zero vector that getEmbeddingCached answers with when the    *)
(* embedding service fails is never stored: every embedding in the       *)
(* in-process map and in embedding_cache is a vector that the embedding  *)
(* service returned, and a map entry made from a stored row equals it.   *)
C29_ZeroVectorNeverStored ==
  /\ \A p \in embMem : p.embedding # ZeroVector /\ p.embedding \in EmbeddingAnswers
  /\ \A row \in embDb : row.embedding # ZeroVector /\ row.embedding \in EmbeddingAnswers

(* a call holds the zero vector after the embedding service failed,      *)
(* while the other call has stored a computed embedding in both tiers    *)
C29_Witness ==
  \E c \in Calls :
     /\ call[c].pc = "search"
     /\ call[c].embedding = ZeroVector
     /\ hist[c].retrieval.embFailed
     /\ ~MemHas(Hash(c))
     /\ embMem # {}
     /\ embDb # {}

(* the non-blank lines of a response                                      *)
LinesOf(text) == NonBlank(SplitBy(text, {"\n"}))

(* what parseResponse returns for the fields it has parsed                *)
WithDefaults(parsed) ==
  [ headline |-> IF parsed.headline # <<>> THEN parsed.headline ELSE DefaultHeadline,
    subheadline |-> IF parsed.subheadline # <<>> THEN parsed.subheadline
                    ELSE DefaultSubheadline,
    thesis |-> <<>>,
    risks |-> <<>>,
    opportunity |-> IF parsed.opportunity # <<>> THEN parsed.opportunity
                    ELSE DefaultOpportunity ]

(* C27: the degraded parse is applied exactly when no line of the        *)
(* response starts with one of the three prefixes: a response with a     *)
(* prefix line, also one with nothing after the prefix, gets the fields  *)
(* of its prefix lines (and defaults), a response without one gets the   *)
(* degraded parse.                                                        *)
C27_DegradedIffNoPrefixLine ==
  parseOut # NotComputed =>
     LET text == parseIn[1]
         none == [ headline |-> <<>>, subheadline |-> <<>>, opportunity |-> <<>> ]
     IN IF NoPrefixLine(text)
        THEN parseOut[1] = WithDefaults(DegradedParse(text))
        ELSE parseOut[1] = WithDefaults(ScanLines(LinesOf(text), 1, none))

(* the last line of the response that starts with OPPORTUNITY:            *)
LastOpportunityLine(lines) ==
  CHOOSE i \in 1..Len(lines) :
     /\ startsWith(lines[i], OpportunityPrefix)
     /\ \A j \in (i + 1)..Len(lines) : ~startsWith(lines[j], OpportunityPrefix)

(* the lines after line i up to the first one that contains a colon,     *)
(* each trimmed and preceded by a space                                   *)
RECURSIVE FollowingLines(_, _)
FollowingLines(lines, i) ==
  IF i + 1 > Len(lines) THEN <<>>
  ELSE IF \E k \in 1..Len(lines[i + 1]) :
             lines[i + 1][k] \in {":", HeadlinePrefix, SubheadlinePrefix, OpportunityPrefix}
       THEN <<>>
       ELSE <<" ">> \o trim(lines[i + 1]) \o FollowingLines(lines, i + 1)

(* C28: for a response with an OPPORTUNITY: line the parsed opportunity  *)
(* is the text after the prefix followed by the non-blank lines that     *)
(* follow that same line, space-joined, up to the first line that        *)
(* contains ':' or the end of the response (the default text when that   *)
(* is empty), also when the text of the OPPORTUNITY: line occurs more    *)
(* than once.                                                             *)
C28_OpportunityContinuation ==
  parseOut # NotComputed =>
     LET lines == LinesOf(parseIn[1])
     IN (\E i \in 1..Len(lines) : startsWith(lines[i], OpportunityPrefix)) =>
           LET i == LastOpportunityLine(lines)
               claimed == trim(Tail(lines[i])) \o FollowingLines(lines, i)
           IN parseOut[1].opportunity =
                 IF claimed # <<>> THEN claimed ELSE DefaultOpportunity

(* ================= versions in localStorage (App) ===================== *)
(* App.tsx and StorageService.  A version is known by its id; the value  *)
(* null of currentVersionId and an absent localStorage key are <<>>, a   *)
(* present value is << value >>.  cleared is history: clearAll has run   *)
(* and autoSave has not been called since.                                *)
DefaultVersionId == "1"
VersionIds == {"1", "2", "3"}

NoTimer == [ pending |-> FALSE, versions |-> <<>>, currentVersionId |-> <<>> ]

EmptyStorage == [ versions |-> <<>>, currentVersionId |-> <<>>, lastSaved |-> FALSE ]

Unmounted ==
  [ mounted |-> FALSE, versions |-> <<>>, currentVersionId |-> <<>>,
    submit |-> <<>>, cleared |-> FALSE ]

InitStorage ==
  /\ InitPipeline /\ IdleKey /\ IdleHighlight /\ IdleParse
  /\ IdleClassify /\ IdleServer
  /\ appState = << Unmounted >>
  /\ localStorage = << EmptyStorage >>
  /\ autoSaveTimeout = << NoTimer >>

(* versions.filter(v => v.id !== versionId)                               *)
Without(versions, versionId) == SelectSeq(versions, LAMBDA v : v # versionId)

Has(versions, versionId) == \E k \in 1..Len(versions) : versions[k] = versionId

(* StorageService.clearAll: the three keys are removed; autoSaveTimeout   *)
(* is not touched                                                         *)
clearAll == [ storage |-> EmptyStorage, timer |-> autoSaveTimeout[1] ]

(* StorageService.autoSave: the pending timer is replaced                 *)
autoSave(versions, currentVersionId) ==
  [ pending |-> TRUE, versions |-> versions, currentVersionId |-> currentVersionId ]

(* the timer of autoSave fires: saveVersions, saveCurrentVersionId        *)
TimerFires ==
  /\ autoSaveTimeout # NotComputed
  /\ autoSaveTimeout[1].pending
  /\ localStorage' =
        << [ versions |-> << autoSaveTimeout[1].versions >>,
             currentVersionId |-> IF autoSaveTimeout[1].currentVersionId # <<>>
                                  THEN autoSaveTimeout[1].currentVersionId
                                  ELSE localStorage[1].currentVersionId,
             lastSaved |-> TRUE ] >>
  /\ autoSaveTimeout' = << [ autoSaveTimeout[1] EXCEPT !.pending = FALSE ] >>
  /\ UNCHANGED << pipelineVars, keyVars, hlVars, parseVars, classifyVars,
                  serverVars, appState >>

(* the effect run when App is mounted                                     *)
Mount ==
  /\ appState # NotComputed
  /\ ~appState[1].mounted
  /\ LET saved == localStorage[1].versions
         savedId == localStorage[1].currentVersionId
     IN IF saved # <<>> /\ saved[1] # <<>>
        THEN /\ appState' =
                  << [ appState[1] EXCEPT
                         !.mounted = TRUE,
                         !.versions = saved[1],
                         !.currentVersionId =
                            IF savedId # <<>> /\ Has(saved[1], savedId[1])
                            THEN savedId ELSE << saved[1][1] >> ] >>
             /\ UNCHANGED autoSaveTimeout
        ELSE /\ appState' =
                  << [ appState[1] EXCEPT
                         !.mounted = TRUE,
                         !.versions = << DefaultVersionId >>,
                         !.currentVersionId = << DefaultVersionId >>,
                         !.cleared = FALSE ] >>
             /\ autoSaveTimeout' =
                  << autoSave(<< DefaultVersionId >>, << DefaultVersionId >>) >>
  /\ UNCHANGED << pipelineVars, keyVars, hlVars, parseVars, classifyVars,
                  serverVars, localStorage >>

(* the version controls are rendered only when currentVersion is found    *)
Rendered ==
  /\ appState # NotComputed
  /\ appState[1].mounted
  /\ appState[1].currentVersionId # <<>>
  /\ Has(appState[1].versions, appState[1].currentVersionId[1])

handleVersionCreate(id) ==
  /\ Rendered
  /\ ~Has(appState[1].versions, id)
  /\ LET updatedVersions == Append(appState[1].versions, id)
     IN /\ appState' = << [ appState[1] EXCEPT !.versions = updatedVersions,
                                               !.currentVersionId = << id >>,
                                               !.cleared = FALSE ] >>
        /\ autoSaveTimeout' = << autoSave(updatedVersions, << id >>) >>
  /\ UNCHANGED << pipelineVars, keyVars, hlVars, parseVars, classifyVars,
                  serverVars, localStorage >>

handleVersionSelect(versionId) ==
  /\ Rendered
  /\ Has(appState[1].versions, versionId)
  /\ appState' = << [ appState[1] EXCEPT !.currentVersionId = << versionId >>,
                                          !.cleared = FALSE ] >>
  /\ autoSaveTimeout' = << autoSave(appState[1].versions, << versionId >>) >>
  /\ UNCHANGED << pipelineVars, keyVars, hlVars, parseVars, classifyVars,
                  serverVars, localStorage >>

handleVersionDelete(versionId) ==
  /\ Rendered
  /\ Has(appState[1].versions, versionId)
  /\ LET updatedVersions == Without(appState[1].versions, versionId)
         newCurrentId ==
           IF appState[1].currentVersionId = << versionId >>
           THEN (IF updatedVersions # <<>> THEN << updatedVersions[1] >> ELSE <<>>)
           ELSE appState[1].currentVersionId
     IN IF updatedVersions # <<>>
        THEN /\ appState' = << [ appState[1] EXCEPT
                                    !.versions = updatedVersions,
                                    !.currentVersionId = newCurrentId,
                                    !.cleared = FALSE ] >>
             /\ autoSaveTimeout' = << autoSave(updatedVersions, newCurrentId) >>
             /\ UNCHANGED localStorage
        ELSE /\ appState' = << [ appState[1] EXCEPT
                                    !.versions = updatedVersions,
                                    !.currentVersionId = newCurrentId,
                                    !.cleared = TRUE ] >>
             /\ localStorage' = << clearAll.storage >>
             /\ autoSaveTimeout' = << clearAll.timer >>
  /\ UNCHANGED << pipelineVars, keyVars, hlVars, parseVars, classifyVars,
                  serverVars >>

(* the user confirms                                                      *)
handleClearAllData ==
  /\ Rendered
  /\ localStorage' = << clearAll.storage >>
  /\ autoSaveTimeout' = << clearAll.timer >>
  /\ appState' = << [ appState[1] EXCEPT
                        !.versions = << DefaultVersionId >>,
                        !.currentVersionId = << DefaultVersionId >>,
                        !.cleared = TRUE ] >>
  /\ UNCHANGED << pipelineVars, keyVars, hlVars, parseVars, classifyVars,
                  serverVars >>

(* handleFormSubmit up to its await: versions and currentVersionId are    *)
(* captured by the closure                                                *)
SubmitStart ==
  /\ Rendered
  /\ appState[1].submit = <<>>
  /\ appState' = << [ appState[1] EXCEPT
                        !.submit = << [ versions |-> appState[1].versions,
                                        currentVersionId |->
                                          appState[1].currentVersionId ] >> ] >>
  /\ UNCHANGED << pipelineVars, keyVars, hlVars, parseVars, classifyVars,
                  serverVars, localStorage, autoSaveTimeout >>

(* handleFormSubmit after generatePositioning has settled                 *)
SubmitFinish ==
  /\ appState # NotComputed
  /\ appState[1].mounted
  /\ appState[1].submit # <<>>
  /\ appState' = << [ appState[1] EXCEPT
                        !.versions = appState[1].submit[1].versions,
                        !.submit = <<>>,
                        !.cleared = FALSE ] >>
  /\ autoSaveTimeout' = << autoSave(appState[1].submit[1].versions,
                                     appState[1].submit[1].currentVersionId) >>
  /\ UNCHANGED << pipelineVars, keyVars, hlVars, parseVars, classifyVars,
                  serverVars, localStorage >>

(* the page is reloaded: the state, the timer and the pending submit are  *)
(* gone, localStorage stays                                               *)
ReloadPage ==
  /\ appState # NotComputed
  /\ appState[1].mounted
  /\ appState' = << [ Unmounted EXCEPT !.cleared = appState[1].cleared ] >>
  /\ autoSaveTimeout' = << NoTimer >>
  /\ UNCHANGED << pipelineVars, keyVars, hlVars, parseVars, classifyVars,
                  serverVars, localStorage >>

NextStorage ==
  \/ Mount
  \/ \E id \in VersionIds : handleVersionCreate(id)
  \/ \E id \in VersionIds : handleVersionSelect(id)
  \/ \E id \in VersionIds : handleVersionDelete(id)
  \/ handleClearAllData
  \/ SubmitStart
  \/ SubmitFinish
  \/ TimerFires
  \/ ReloadPage

SpecStorage == InitStorage /\ [][NextStorage]_vars

(* C30: once clearAll has run, localStorage holds no versions and no     *)
(* current version id until autoSave is called again; a timer that was   *)
(* pending at the clear does not write the old versions back.             *)
C30_ClearIsDurable ==
  appState # NotComputed =>
     (appState[1].cleared =>
        /\ localStorage[1].versions = <<>>
        /\ localStorage[1].currentVersionId = <<>>)

====
